---- MODULE Spec2Model ----
(***************************************************************************)
(* State-machine model of the streaming connection layer and the strategy  *)
(* signal engine of auto-coin-trader-v3:                                   *)
(*   utils/websocket_client.py   WebSocketClient                           *)
(*   utils/user_data_stream.py   UserDataStreamManager                     *)
(*   strategies/base.py          BaseStrategy                              *)
(*   strategies/vwap_strategy.py VWAPStrategy                              *)
(*   strategies/manager.py       StrategyInstance, StrategyManager         *)
(*   utils/time_sync.py          TimeSynchronizer                          *)
(* Each component has its own specification (SpecWS, SpecLease,            *)
(* SpecStrategy, SpecManager, SpecSync); the variables of the other        *)
(* components stay at their constructed values.                            *)
(***************************************************************************)
EXTENDS Integers, Sequences, FiniteSets, TLC

VARIABLES
    \* ---- WebSocketClient (utils/websocket_client.py) ----
    ws_manager,          \* TRUE iff self.ws_manager is not None
    subscriptions,       \* self.subscriptions: stream id -> callback
    connection_status,   \* "disconnected" | "connected" | "failed"
    last_ping_time,      \* 0 = None, 1 = a time.time() stamp
    reconnect_attempts,  \* self.reconnect_attempts
    running,             \* self._running
    hpc,                 \* position of the _health_monitor task
    mpc,                 \* position of start_message_processing
    backoff_time,        \* _attempt_reconnect: local backoff_time of the latest attempt (0: none yet)
    link_up,             \* the streams of the manager are alive (the exchange side of ws_manager)
    in_flight,           \* messages taken from the buffer whose handling has not completed
    \* history of the client, for the properties
    last_event,          \* the last step the client took; a dispatch names the callback
    pre_subs,            \* stream ids subscribed when the last successful reconnect began
    reconnected,         \* a reconnect has succeeded
    reset_since,         \* a connect has succeeded since the latest reconnect attempt began
    \* ---- UserDataStreamManager (utils/user_data_stream.py) ----
    listen_key,            \* self.listen_key: 0 = None, n = the n-th key the exchange minted
    listen_key_expires_at, \* self.listen_key_expires_at: 0 = None, else seconds
    keys_minted,           \* keys the exchange has handed out so far
    lrunning,              \* self._running
    kpc,                   \* position of the _keepalive_loop task
    opc,                   \* position of the owner: initialize / shutdown
    now,                   \* time.time(), seconds
    \* history of the lease manager, for the properties
    lease_event,           \* the last step of the lease manager
    total_failures,        \* renewal steps in which the keepalive call and the re-mint both failed
    shutdowns,             \* calls of shutdown() so far
    \* ---- VWAPStrategy (strategies/base.py, strategies/vwap_strategy.py) ----
    state,                 \* self.state: "INACTIVE" | "ACTIVE" | "PAUSED" | "ERROR"
    klines,                \* self.klines
    mark_prices,           \* self.mark_prices
    last_signal_time,      \* self.last_signal_time: None or seconds
    volatility_halt_until, \* self.volatility_halt_until: None or seconds
    current_vwap,          \* self.current_vwap
    current_vwap_std,      \* self.current_vwap_std
    current_adx,           \* self.current_adx
    signals_generated,     \* self.signals_generated
    last_error,            \* self.last_error is set
    utcnow,                \* datetime.now(UTC), seconds
    vwap_std_multiplier,   \* self.config['vwap_std_multiplier']
    \* the feed and the history of the instance, for the properties
    feed_open_time,        \* open time (in minutes) of the candle the feed is forming
    fed,                   \* candles fed since the initial state
    marks_fed,             \* mark-price ticks fed since the initial state
    arrived,               \* candles the instance has ingested since construction
    marks_arrived,         \* mark-price ticks the instance has ingested since construction
    odd_fed,               \* of them, candles that are not the plain closed candle
    emitted,               \* every signal the instance has returned, in order
    last_call,             \* the last call on the instance and what it returned
    \* ---- StrategyManager (strategies/manager.py) ----
    instances,               \* self.instances: instance key -> StrategyInstance
    global_signal_callbacks, \* self.global_signal_callbacks
    calls,                   \* calls made on the manager so far
    last_route,              \* the last call on the manager: what each instance did
    \* ---- TimeSynchronizer (utils/time_sync.py) ----
    time_offset,             \* self._time_offset: <<>> = None, <<v>> = v milliseconds
    last_sync_time,          \* self._last_sync_time: <<>> = None, <<t>> = t milliseconds
    sync_running,            \* self._running
    sync_task,               \* self._sync_task: "none", or the position of the task it names
    starter,                 \* position of each coroutine that calls start_sync
    orphans,                 \* the _sync_loop tasks self._sync_task no longer names
    request_time,            \* _sync_time: local request_time of the probe of each caller
    local_ms,                \* int(time.time() * 1000)
    probes,                  \* probes sent so far
    last_probe,              \* the last probe that completed, what it read, and the successes so far
    \* ---- DataValidator (utils/data_validation.py) ----
    stats,                   \* self.stats: key -> count (last_validation: 0 = None, 1 = a stamp)
    last_kline_close_time,   \* self.last_kline_close_time: None or milliseconds
    last_mark_price,         \* self.last_mark_price: None or a price
    price_history,           \* self.price_history
    \* the feed and the history of the validator, for the properties
    val_open_time,           \* open_time of the last candle handed to validate_kline (None: none yet)
    val_consecutive,         \* every candle so far opened 60000 ms after the one before it
    val_calls,               \* validate_kline / validate_mark_price calls since the initial state
    val_resets,              \* reset_stats calls so far
    val_last,                \* the last call on the validator, its inputs and what it returned
    \* ---- two VWAPStrategy instances of one configuration, fed the same candles ----
    twins,                   \* instance -> state, klines, halt, stored indicators, its clock
    twin_fed,                \* candles fed to both so far
    twin_last                \* instance -> what _calculate_indicators returned for the last candle

wsVars == <<ws_manager, subscriptions, connection_status, last_ping_time,
            reconnect_attempts, running, hpc, mpc, backoff_time, link_up, in_flight,
            last_event, pre_subs, reconnected, reset_since>>

leaseVars == <<listen_key, listen_key_expires_at, keys_minted, lrunning, kpc, opc, now,
               lease_event, total_failures, shutdowns>>

stratVars == <<state, klines, mark_prices, last_signal_time, volatility_halt_until,
               current_vwap, current_vwap_std, current_adx, signals_generated,
               last_error, utcnow, feed_open_time, fed, odd_fed, emitted,
               last_call, vwap_std_multiplier, marks_fed, arrived, marks_arrived>>

mgrVars == <<instances, global_signal_callbacks, calls, last_route>>

syncVars == <<time_offset, last_sync_time, sync_running, sync_task, starter,
              request_time, local_ms, probes, last_probe, orphans>>

valVars == <<stats, last_kline_close_time, last_mark_price, price_history,
             val_open_time, val_consecutive, val_calls, val_resets, val_last>>

twinVars == <<twins, twin_fed, twin_last>>

otherThanWs    == <<leaseVars, stratVars, mgrVars, syncVars, valVars, twinVars>>
otherThanLease == <<wsVars, stratVars, mgrVars, syncVars, valVars, twinVars>>
otherThanStrat == <<wsVars, leaseVars, mgrVars, syncVars, valVars, twinVars>>
otherThanMgr   == <<wsVars, leaseVars, stratVars, syncVars, valVars, twinVars>>
otherThanSync  == <<wsVars, leaseVars, stratVars, mgrVars, valVars, twinVars>>
otherThanVal   == <<wsVars, leaseVars, stratVars, mgrVars, syncVars, twinVars>>
otherThanTwin  == <<wsVars, leaseVars, stratVars, mgrVars, syncVars, valVars>>

vars == <<wsVars, leaseVars, stratVars, mgrVars, syncVars, valVars, twinVars>>

-----------------------------------------------------------------------------
(* Strings are sequences of one-character strings, so that the formatting   *)
(* and parsing of stream ids is computed and not assumed.                   *)

UpperChars == <<"B", "T", "C", "E", "H">>
LowerChars == <<"b", "t", "c", "e", "h">>

LowerChar(c) ==
    IF \E i \in DOMAIN UpperChars : UpperChars[i] = c
    THEN LowerChars[CHOOSE i \in DOMAIN UpperChars : UpperChars[i] = c]
    ELSE c

UpperChar(c) ==
    IF \E i \in DOMAIN LowerChars : LowerChars[i] = c
    THEN UpperChars[CHOOSE i \in DOMAIN LowerChars : LowerChars[i] = c]
    ELSE c

\* str.lower() / str.upper()
StrLower(s) == [i \in DOMAIN s |-> LowerChar(s[i])]
StrUpper(s) == [i \in DOMAIN s |-> UpperChar(s[i])]

\* `pat in s`
StrContains(pat, s) ==
    \E i \in 1..(Len(s) - Len(pat) + 1) : SubSeq(s, i, i + Len(pat) - 1) = pat

\* index of the first occurrence of pat in s, 0 if there is none
StrFind(pat, s) ==
    IF StrContains(pat, s)
    THEN CHOOSE i \in 1..(Len(s) - Len(pat) + 1) :
            /\ SubSeq(s, i, i + Len(pat) - 1) = pat
            /\ \A j \in 1..(i - 1) : SubSeq(s, j, j + Len(pat) - 1) # pat
    ELSE 0

\* s.split(sep): the list of parts
RECURSIVE StrSplit(_, _)
StrSplit(s, sep) ==
    IF StrFind(sep, s) = 0
    THEN <<s>>
    ELSE <<SubSeq(s, 1, StrFind(sep, s) - 1)>>
         \o StrSplit(SubSeq(s, StrFind(sep, s) + Len(sep), Len(s)), sep)

S_kline      == <<"k", "l", "i", "n", "e">>
S_at_kline   == <<"@", "k", "l", "i", "n", "e", "_">>
S_markPrice  == <<"m", "a", "r", "k", "P", "r", "i", "c", "e">>
S_at         == <<"@">>
S_user_data  == <<"u", "s", "e", "r", "_", "d", "a", "t", "a">>
S_empty      == <<>>
S_unknown    == <<"x", "@", "t", "r", "a", "d", "e">>

\* the symbols, intervals and callbacks the caller subscribes with
Symbols   == {<<"B", "t", "C">>}
Intervals == {<<"1", "m">>}

\* the callback the owner registers for each kind of stream
KlineCallback     == "on_kline"
MarkPriceCallback == "on_mark_price"
UserDataCallback  == "on_user_data"

\* subscribe_kline: stream_id = f"{symbol.lower()}@kline_{interval}"
KlineStreamId(symbol, interval) == StrLower(symbol) \o S_at_kline \o interval

\* subscribe_mark_price: stream_id = f"{symbol.lower()}@markPrice"
MarkPriceStreamId(symbol) == StrLower(symbol) \o S_at \o S_markPrice

NoStream == <<"?">>

\* a step of the client; for a dispatch, `stream` is the message's stream id
\* (NoStream: the message has no "stream" key), `to` the callback it went to,
\* `raised` whether that callback raised
Event(kind) == [kind |-> kind, to |-> "none", stream |-> NoStream, raised |-> FALSE]

-----------------------------------------------------------------------------
(* WebSocketClient                                                          *)

MaxReconnectAttempts == 10     \* self.max_reconnect_attempts
BaseBackoff == 1               \* self.base_backoff
MaxBackoff == 60               \* settings.trading.ws_max_backoff_sec

RECURSIVE Pow2(_)
Pow2(n) == IF n <= 0 THEN 1 ELSE 2 * Pow2(n - 1)

Min(a, b) == IF a < b THEN a ELSE b
Max(a, b) == IF a > b THEN a ELSE b

BackoffTimeExponentOff(n) == Min(BaseBackoff * Pow2(n), MaxBackoff)
BackoffTimeUncapped(n) == BaseBackoff * Pow2(n - 1)

\* _attempt_reconnect, line 238:
\* min(self.base_backoff * (2 ** (self.reconnect_attempts - 1)), self.max_backoff)
BackoffTime(n) == Min(BaseBackoff * Pow2(n - 1), MaxBackoff)

CapReachedOffByOne(n) == n > MaxReconnectAttempts

\* _attempt_reconnect, line 232: the attempt cap
CapReached(n) == n >= MaxReconnectAttempts

\* the stream ids the caller can subscribe to
KlineStreams     == {KlineStreamId(s, i) : s \in Symbols, i \in Intervals}
MarkPriceStreams == {MarkPriceStreamId(s) : s \in Symbols}
StreamUniverse   == KlineStreams \cup MarkPriceStreams \cup {S_user_data}

\* self.subscriptions[stream_id] = callback
Put(subs, id, cb) ==
    [s \in (DOMAIN subs) \cup {id} |-> IF s = id THEN cb ELSE subs[s]]

EmptyMap == [s \in {} |-> "none"]

\* _resubscribe_all, lines 253-265: the stream id one entry of the copy is
\* subscribed again under (NoStream: the entry is not subscribed again)
ResubscribeTarget(stream_id) ==
    IF StrContains(S_kline, stream_id)
    THEN IF Len(StrSplit(stream_id, S_at_kline)) = 2
         THEN KlineStreamId(StrUpper(StrSplit(stream_id, S_at_kline)[1]),
                            StrSplit(stream_id, S_at_kline)[2])
         ELSE NoStream
    ELSE IF StrContains(S_markPrice, stream_id)
         THEN MarkPriceStreamId(StrUpper(StrSplit(stream_id, S_at)[1]))
         ELSE NoStream        \* "user_data": only a warning is logged

\* _resubscribe_all: the map after the loop; `failed` are the entries whose
\* create_stream call raised (subscribe_* then returns False and adds nothing)
ResubscribeAll(copy, failed) ==
    LET kept == {id \in DOMAIN copy : id \notin failed /\ ResubscribeTarget(id) # NoStream}
    IN  [t \in {ResubscribeTarget(id) : id \in kept} |->
            copy[CHOOSE id \in kept : ResubscribeTarget(id) = t]]

\* get_connection_status
GetConnectionStatus ==
    [status |-> connection_status,
     last_ping |-> last_ping_time,
     reconnect_attempts |-> reconnect_attempts,
     active_subscriptions |-> Cardinality(DOMAIN subscriptions)]

DispatchTargetAny(subs, has_stream, stream_id) ==
    IF DOMAIN subs = {} THEN "none" ELSE subs[CHOOSE s \in DOMAIN subs : TRUE]

\* _process_message, lines 180-191: the callback a message is handed to
DispatchTarget(subs, has_stream, stream_id) ==
    IF ~has_stream THEN "none"
    ELSE IF stream_id \in DOMAIN subs THEN subs[stream_id]
    ELSE IF S_user_data \in DOMAIN subs /\ stream_id = S_empty THEN subs[S_user_data]
    ELSE "none"

InitWS ==
    /\ ws_manager = FALSE
    /\ subscriptions = EmptyMap
    /\ connection_status = "disconnected"
    /\ last_ping_time = 0
    /\ reconnect_attempts = 0
    /\ running = FALSE
    /\ hpc = "none"
    /\ mpc = "stopped"
    /\ backoff_time = 0
    /\ link_up = FALSE
    /\ in_flight = 0
    /\ last_event = Event("init")
    /\ pre_subs = {}
    /\ reconnected = FALSE
    /\ reset_since = FALSE

\* connect(), lines 32-60, called by the owner of the client; the constructor
\* of BinanceWebSocketApiManager either returns or raises
Connect ==
    /\ \E ok \in BOOLEAN :
        IF ok
        THEN /\ ws_manager' = TRUE
             /\ connection_status' = "connected"
             /\ reconnect_attempts' = 0
             /\ last_ping_time' = 1
             /\ reset_since' = TRUE
             /\ link_up' = TRUE
             /\ last_event' = Event("other")
        ELSE /\ connection_status' = "failed"
             /\ last_event' = Event("connect_failed")
             /\ UNCHANGED <<ws_manager, reconnect_attempts, last_ping_time, reset_since,
                            link_up>>
    /\ UNCHANGED <<subscriptions, running, hpc, mpc, backoff_time, pre_subs,
                   reconnected, in_flight>>
    /\ UNCHANGED otherThanWs

\* subscribe_kline / subscribe_mark_price / subscribe_user_data, lines 79-154;
\* create_stream either returns or raises
Subscribe(stream_id, callback, created) ==
    /\ ws_manager
    /\ IF created
       THEN subscriptions' = Put(subscriptions, stream_id, callback)
       ELSE UNCHANGED subscriptions
    /\ last_event' = Event("other")
    /\ UNCHANGED <<ws_manager, connection_status, last_ping_time, reconnect_attempts,
                   running, hpc, mpc, backoff_time, pre_subs, reconnected, reset_since>>
    /\ UNCHANGED <<link_up, in_flight>>
    /\ UNCHANGED otherThanWs

SubscribeKline ==
    \E s \in Symbols, i \in Intervals, created \in BOOLEAN :
        Subscribe(KlineStreamId(s, i), KlineCallback, created)

SubscribeMarkPrice ==
    \E s \in Symbols, created \in BOOLEAN :
        Subscribe(MarkPriceStreamId(s), MarkPriceCallback, created)

SubscribeUserData ==
    \E created \in BOOLEAN :
        Subscribe(S_user_data, UserDataCallback, created)

\* start_message_processing, lines 157-158
StartMessageProcessing ==
    /\ mpc = "stopped"
    /\ hpc \in {"none", "done"}
    /\ running' = TRUE
    /\ hpc' = "sleep30"
    /\ mpc' = "polling"
    /\ last_event' = Event("other")
    /\ UNCHANGED <<ws_manager, subscriptions, connection_status, last_ping_time,
                   reconnect_attempts, backoff_time, pre_subs, reconnected, reset_since>>
    /\ UNCHANGED <<link_up, in_flight>>
    /\ UNCHANGED otherThanWs

\* the `while self._running` test of _health_monitor, line 208
HealthLoopNext(run) == IF run THEN "sleep30" ELSE "done"

\* _health_monitor, lines 210-222: the 30 s sleep is over and a connected
\* client is probed
HealthCheck ==
    /\ hpc = "sleep30"
    /\ ws_manager /\ connection_status = "connected"
    /\ last_ping_time' = 1
    /\ hpc' = HealthLoopNext(running)
    /\ last_event' = Event("health_check")
    /\ UNCHANGED <<ws_manager, subscriptions, connection_status, reconnect_attempts,
                   running, mpc, backoff_time, pre_subs, reconnected, reset_since>>
    /\ UNCHANGED <<link_up, in_flight>>
    /\ UNCHANGED otherThanWs

\* _health_monitor, lines 210-225, neither branch taken
HealthIdle ==
    /\ hpc = "sleep30"
    /\ ~(ws_manager /\ connection_status = "connected")
    /\ ~(connection_status = "failed" /\ running)
    /\ hpc' = HealthLoopNext(running)
    /\ last_event' = Event("other")
    /\ UNCHANGED <<ws_manager, subscriptions, connection_status, last_ping_time,
                   reconnect_attempts, running, mpc, backoff_time, pre_subs,
                   reconnected, reset_since>>
    /\ UNCHANGED <<link_up, in_flight>>
    /\ UNCHANGED otherThanWs

\* _health_monitor line 224-225 into _attempt_reconnect, lines 232-235: the cap
\* is reached, the client stops
GiveUp ==
    /\ hpc = "sleep30"
    /\ ~(ws_manager /\ connection_status = "connected")
    /\ connection_status = "failed" /\ running
    /\ CapReached(reconnect_attempts)
    /\ running' = FALSE
    /\ hpc' = HealthLoopNext(FALSE)
    /\ last_event' = Event("give_up")
    /\ UNCHANGED <<ws_manager, subscriptions, connection_status, last_ping_time,
                   reconnect_attempts, mpc, backoff_time, pre_subs, reconnected,
                   reset_since>>
    /\ UNCHANGED <<link_up, in_flight>>
    /\ UNCHANGED otherThanWs

\* _attempt_reconnect, lines 237-243: count the attempt, compute the wait and
\* sleep
BeginReconnect ==
    /\ hpc = "sleep30"
    /\ ~(ws_manager /\ connection_status = "connected")
    /\ connection_status = "failed" /\ running
    /\ ~CapReached(reconnect_attempts)
    /\ reconnect_attempts' = reconnect_attempts + 1
    /\ backoff_time' = BackoffTime(reconnect_attempts + 1)
    /\ hpc' = "backoff"
    /\ reset_since' = FALSE
    /\ last_event' = Event("begin_reconnect")
    /\ UNCHANGED <<ws_manager, subscriptions, connection_status, last_ping_time,
                   running, mpc, pre_subs, reconnected>>
    /\ UNCHANGED <<link_up, in_flight>>
    /\ UNCHANGED otherThanWs

\* _attempt_reconnect, lines 245-247: the sleep is over; connect() and, when it
\* succeeds, _resubscribe_all(). Neither suspends, so the two run as one step
\* of the event loop.
FinishReconnect ==
    /\ hpc = "backoff"
    /\ \E ok \in BOOLEAN :
        IF ok
        THEN /\ ws_manager' = TRUE
             /\ connection_status' = "connected"
             /\ reconnect_attempts' = 0
             /\ last_ping_time' = 1
             /\ pre_subs' = DOMAIN subscriptions
             /\ \E failed \in SUBSET (DOMAIN subscriptions) :
                    subscriptions' = ResubscribeAll(subscriptions, failed)
             /\ reconnected' = TRUE
             /\ reset_since' = TRUE
             /\ link_up' = TRUE
             /\ last_event' = Event("reconnect_ok")
        ELSE /\ connection_status' = "failed"
             /\ last_event' = Event("connect_failed")
             /\ UNCHANGED <<ws_manager, reconnect_attempts, last_ping_time, pre_subs,
                   subscriptions, reconnected, reset_since, link_up>>
    /\ hpc' = HealthLoopNext(running)
    /\ UNCHANGED <<running, mpc, backoff_time, in_flight>>
    /\ UNCHANGED otherThanWs

TaskStillRunning(task) == task

\* disconnect, lines 65-70; shutdown, lines 150-155; stop_sync, lines 46-51:
\* the background task, if one was created, is cancelled where it waits and
\* awaited, which ends it
TaskAfterCancel(task) == IF task = "none" THEN "none" ELSE "done"

\* disconnect(), lines 62-77
Disconnect ==
    /\ running' = FALSE
    /\ hpc' = TaskAfterCancel(hpc)
    /\ ws_manager' = FALSE
    /\ connection_status' = "disconnected"
    /\ link_up' = FALSE
    /\ last_event' = Event("other")
    /\ UNCHANGED <<subscriptions, last_ping_time, reconnect_attempts, mpc, backoff_time,
                   pre_subs, reconnected, reset_since, in_flight>>
    /\ UNCHANGED otherThanWs

\* the messages the stream buffer can hold
MessageStreams == StreamUniverse \cup {S_empty, S_unknown}

\* messages whose handling may be pending at once in the model
MaxInFlight == 2

LoopNotAwaiting(pending) == "polling"

\* start_message_processing, line 169, `await self._process_message(...)`:
\* where the loop is while the callback of a message is awaited
LoopWhileHandling(pending) == IF pending THEN "callback" ELSE "polling"

LoopAfterMessageStops(raised) == IF raised THEN "stopped" ELSE "polling"

\* where the loop is once the handling of a message is over, `raised` telling
\* whether the callback raised: _safe_callback (lines 203-205), _process_message
\* (lines 193-195) and the loop itself (lines 173-176) catch Exception
LoopAfterMessage(raised) == "polling"

\* start_message_processing, lines 160-171, with _process_message and
\* _safe_callback: the oldest message is popped and handed to its callback; a
\* coroutine callback suspends the loop until it returns, any other callback
\* runs (and may raise) inside the step
ProcessMessage ==
    /\ mpc = "polling"
    /\ running
    /\ ws_manager
    /\ in_flight < MaxInFlight
    /\ \E has_stream \in BOOLEAN, stream_id \in MessageStreams,
          suspends \in BOOLEAN, raises \in BOOLEAN :
        LET target  == DispatchTarget(subscriptions, has_stream, stream_id)
            pending == suspends /\ target # "none"
            raised  == raises /\ ~suspends /\ target # "none"
        IN  /\ last_event' = [kind |-> "dispatch",
                               to |-> target,
                               stream |-> IF has_stream THEN stream_id ELSE NoStream,
                               raised |-> raised]
            /\ in_flight' = IF pending THEN in_flight + 1 ELSE in_flight
            /\ mpc' = IF pending THEN LoopWhileHandling(TRUE) ELSE LoopAfterMessage(raised)
    /\ UNCHANGED <<ws_manager, subscriptions, connection_status, last_ping_time,
                   reconnect_attempts, running, hpc, backoff_time, pre_subs,
                   reconnected, reset_since, link_up>>
    /\ UNCHANGED otherThanWs

\* the awaited callback returns or raises (_safe_callback logs the exception)
CallbackReturn ==
    /\ in_flight > 0
    /\ in_flight' = in_flight - 1
    /\ \E raises \in BOOLEAN :
        /\ last_event' = [Event("callback_done") EXCEPT !.raised = raises]
        /\ mpc' = IF mpc = "callback" THEN LoopAfterMessage(raises) ELSE mpc
    /\ UNCHANGED <<ws_manager, subscriptions, connection_status, last_ping_time,
                   reconnect_attempts, running, hpc, backoff_time, pre_subs,
                   reconnected, reset_since, link_up>>
    /\ UNCHANGED otherThanWs

\* the exchange or the network closes the streams of a connected client;
\* nothing in WebSocketClient is called when that happens
UnexpectedClose ==
    /\ ws_manager
    /\ link_up
    /\ link_up' = FALSE
    /\ last_event' = Event("close")
    /\ UNCHANGED <<ws_manager, subscriptions, connection_status, last_ping_time,
                   reconnect_attempts, running, hpc, mpc, backoff_time, pre_subs,
                   reconnected, reset_since, in_flight>>
    /\ UNCHANGED otherThanWs

\* start_message_processing, line 160: the loop ends once _running is False
MessageLoopExit ==
    /\ mpc = "polling"
    /\ ~running
    /\ mpc' = "stopped"
    /\ last_event' = Event("other")
    /\ UNCHANGED <<ws_manager, subscriptions, connection_status, last_ping_time,
                   reconnect_attempts, running, hpc, backoff_time, pre_subs,
                   reconnected, reset_since>>
    /\ UNCHANGED <<link_up, in_flight>>
    /\ UNCHANGED otherThanWs

NextWS ==
    \/ Connect
    \/ SubscribeKline
    \/ SubscribeMarkPrice
    \/ SubscribeUserData
    \/ StartMessageProcessing
    \/ HealthCheck
    \/ HealthIdle
    \/ GiveUp
    \/ BeginReconnect
    \/ FinishReconnect
    \/ Disconnect
    \/ ProcessMessage
    \/ CallbackReturn
    \/ MessageLoopExit
    \/ UnexpectedClose


-----------------------------------------------------------------------------
(* Properties of the WebSocketClient                                        *)

\* C1: after any successful reconnect (_attempt_reconnect -> connect ->
\* _resubscribe_all) the set of stream ids in the subscription map equals the
\* set subscribed before the failure: nothing omitted, nothing added.
C1_ResubscribedSetEqualsPreFailureSet ==
    last_event.kind = "reconnect_ok" => DOMAIN subscriptions = pre_subs

\* C2: once a reconnect has succeeded, every message is dispatched with all
\* previously active subscriptions in place: none is dispatched while the map
\* is empty or only partly restored.
C2_DispatchOnlyWhenFullyRestored ==
    (reconnected /\ last_event.kind = "dispatch") => pre_subs \subseteq DOMAIN subscriptions

\* C7: reconnection is bounded: a run of reconnect attempts never counts more
\* than max_reconnect_attempts, and when the cap is reached the health monitor
\* ends with _running False instead of calling connect() again.
C7_ReconnectBounded ==
    /\ reconnect_attempts <= MaxReconnectAttempts
    /\ last_event.kind = "give_up" =>
          /\ reconnect_attempts = MaxReconnectAttempts
          /\ ~running
          /\ hpc = "done"
    /\ hpc = "backoff" => last_event.kind # "give_up"

C7_Witness ==
    /\ last_event.kind = "give_up"
    /\ reconnect_attempts = MaxReconnectAttempts
    /\ connection_status = "failed"

\* C8: when the attempt cap is exceeded, the step that gives up changes what
\* the caller can observe through get_connection_status (the fatal condition
\* is reported by a status value, not only logged).
C8_GiveUpIsReported ==
    [][(hpc = "sleep30" /\ last_event'.kind = "give_up")
          => GetConnectionStatus' # GetConnectionStatus]_vars

\* the waits of attempts 1..10 for base = 1 s and cap = 60 s
ExpectedWait == <<1, 2, 4, 8, 16, 32, 60, 60, 60, 60>>

\* C9: the wait before reconnect attempt n (counted from 1) is
\* min(base * 2^(n-1), maxBackoff); with base 1 s and cap 60 s, attempt 5
\* waits 16 s.
C9_BackoffFormula ==
    last_event.kind = "begin_reconnect" =>
        /\ reconnect_attempts \in DOMAIN ExpectedWait
        /\ backoff_time = ExpectedWait[reconnect_attempts]
        /\ hpc = "backoff"

C9_Witness ==
    /\ last_event.kind = "begin_reconnect"
    /\ reconnect_attempts = 5
    /\ backoff_time = 16

\* C10 as stated: over every sequence of reconnect attempts of one client the
\* wait never decreases from one attempt to the next and never exceeds the
\* maximum.
C10_WaitNeverDecreases ==
    /\ [](backoff_time <= MaxBackoff)
    /\ [][(hpc = "sleep30" /\ hpc' = "backoff") => backoff_time <= backoff_time']_vars

\* C10 amended: the wait never exceeds the maximum, and it does not decrease
\* from one attempt to the next unless a connect succeeded in between (a
\* successful connect resets the attempt counter).
C10_WaitNeverDecreasesWithinRun ==
    /\ [](backoff_time <= MaxBackoff)
    /\ [][(hpc = "sleep30" /\ hpc' = "backoff" /\ ~reset_since)
            => backoff_time <= backoff_time']_vars

C10_Witness ==
    /\ hpc = "backoff"
    /\ ~reset_since
    /\ reconnect_attempts = 8
    /\ backoff_time = MaxBackoff

\* C11 (the state change): whenever a connect attempt fails or an established
\* connection closes unexpectedly while the client is running, the connection
\* state becomes FAILED (from where the health monitor reconnects).
C11_FailureBecomesFailed ==
    [][(running /\ last_event'.kind \in {"connect_failed", "close"})
          => connection_status' = "failed"]_vars

\* C12: when the periodic health probe finds an established connection on
\* which neither traffic nor a heartbeat acknowledgment can have been observed
\* (its streams are closed), it moves the connection from CONNECTED to FAILED.
C12_SilentConnectionBecomesFailed ==
    [][(last_event'.kind = "health_check" /\ ~link_up /\ connection_status = "connected")
          => connection_status' = "failed"]_vars

\* C13 as stated: a message goes to the callback registered for its stream id,
\* and a message whose stream id has no registered callback goes to none.
C13_OnlyRegisteredHandler ==
    last_event.kind = "dispatch" =>
        last_event.to = (IF last_event.stream \in DOMAIN subscriptions
                         THEN subscriptions[last_event.stream]
                         ELSE "none")

\* C13 amended: a message goes to at most one callback: the one registered for
\* its stream id; or, when its stream id is the empty string, the one
\* registered under "user_data"; otherwise none.
C13_RegisteredOrUserDataHandler ==
    last_event.kind = "dispatch" =>
        last_event.to = (IF last_event.stream \in DOMAIN subscriptions
                         THEN subscriptions[last_event.stream]
                         ELSE IF last_event.stream = S_empty
                                 /\ S_user_data \in DOMAIN subscriptions
                         THEN subscriptions[S_user_data]
                         ELSE "none")

C13_Witness ==
    /\ last_event.kind = "dispatch"
    /\ last_event.stream = S_empty
    /\ last_event.to = UserDataCallback
    /\ Cardinality(DOMAIN subscriptions) = 3

\* C14: a message that is malformed, carries an unknown stream id, or whose
\* callback raises does not stop the dispatch loop: once its handling is over
\* the loop is polling the buffer again and _running has not changed.
C14_BadMessageDoesNotStopLoop ==
    [][((last_event'.kind = "dispatch" /\ in_flight' = in_flight)
           \/ last_event'.kind = "callback_done")
          => (mpc' = "polling" /\ running' = running)]_vars

C14_Witness ==
    /\ last_event.kind = "dispatch"
    /\ last_event.raised
    /\ mpc = "polling"
    /\ running

\* C15: the handling of a message, its awaited callback included, is complete
\* before the next message is taken from the buffer: a message is taken only
\* when none is being handled, so at most one is in flight.
C15_OneMessageAtATime ==
    /\ [](in_flight <= 1)
    /\ [][last_event'.kind = "dispatch" => in_flight = 0]_vars

C15_Witness ==
    /\ last_event.kind = "callback_done"
    /\ in_flight = 0
    /\ mpc = "polling"
    /\ running

-----------------------------------------------------------------------------
(* UserDataStreamManager                                                    *)

KeepaliveInterval == 1800      \* self.keepalive_interval = 30 * 60
LeaseLifetime == 3600          \* time.time() + 3600

\* bounds of the lease model: the horizon, and how long a REST call may take
MaxLeaseTime == 7300
CallDelay == 20

CallDelays == {0, CallDelay}

ValidityMargin == 300          \* is_listen_key_valid: more than 5 minutes left

\* bound of the lease model: calls of shutdown() in one run
MaxShutdowns == 2

InitLease ==
    /\ listen_key = 0
    /\ listen_key_expires_at = 0
    /\ keys_minted = 0
    /\ lrunning = FALSE
    /\ kpc = "none"
    /\ opc = "new"
    /\ now = 0
    /\ lease_event = "none"
    /\ total_failures = 0
    /\ shutdowns = 0

\* get_listen_key, lines 162-163
GetListenKey == listen_key

\* get_status, lines 165-172 (testnet, fixed at construction, left out)
GetStatus ==
    [has_listen_key |-> listen_key # 0,
     expires_at |-> listen_key_expires_at,
     expires_in_seconds |-> IF listen_key_expires_at # 0
                            THEN Max(0, listen_key_expires_at - now) ELSE 0,
     running |-> lrunning]

\* is_listen_key_valid, lines 174-179
IsListenKeyValid ==
    /\ listen_key # 0
    /\ listen_key_expires_at # 0
    /\ listen_key_expires_at - now > ValidityMargin

\* initialize(), lines 26-47, with _create_listen_key, lines 49-70: the
\* new_listen_key call returns a key, returns something else, or raises
Initialize ==
    /\ opc = "new"
    /\ \E ok \in BOOLEAN, d \in CallDelays :
        /\ now + d <= MaxLeaseTime
        /\ now' = now + d
        /\ IF ok
           THEN /\ listen_key' = keys_minted + 1
                /\ keys_minted' = keys_minted + 1
                /\ listen_key_expires_at' = now + d + LeaseLifetime
                /\ lrunning' = TRUE
                /\ kpc' = "sleeping"
                /\ opc' = "ready"
                /\ lease_event' = "minted"
           ELSE /\ lease_event' = "mint_failed"
                /\ UNCHANGED <<listen_key, keys_minted, listen_key_expires_at, lrunning,
                               kpc, opc>>
    /\ UNCHANGED <<total_failures, shutdowns>>
    /\ UNCHANGED otherThanLease

\* _keepalive_loop, lines 126-135: the sleep of keepalive_interval is over and
\* _extend_listen_key is called; it sends the keepalive call, or the
\* new_listen_key call when there is no key (lines 74-76)
KeepaliveWake ==
    /\ kpc = "sleeping"
    /\ now + KeepaliveInterval <= MaxLeaseTime
    /\ now' = now + KeepaliveInterval
    /\ kpc' = IF ~lrunning THEN "done"
              ELSE IF listen_key = 0 THEN "creating" ELSE "extending"
    /\ lease_event' = "woke"
    /\ UNCHANGED <<listen_key, listen_key_expires_at, keys_minted, lrunning, opc,
                   total_failures, shutdowns>>
    /\ UNCHANGED otherThanLease

AfterFailedRenewalRetry == "extending"

\* _extend_listen_key, lines 88-98: after a keepalive call that returned None
\* or raised, _create_listen_key is called
AfterFailedRenewal == "creating"

\* _extend_listen_key, lines 80-98: the keepalive call returns a response,
\* returns None, or raises; on the last two a new key is requested at once
ExtendResponse ==
    /\ kpc = "extending"
    /\ \E outcome \in {"ok", "none", "raise"}, d \in CallDelays :
        /\ now + d <= MaxLeaseTime
        /\ now' = now + d
        /\ IF outcome = "ok"
           THEN /\ listen_key_expires_at' = now + d + LeaseLifetime
                /\ kpc' = "sleeping"
                /\ lease_event' = "renewed"
           ELSE /\ kpc' = AfterFailedRenewal
                /\ lease_event' = "renewal_failed"
                /\ UNCHANGED listen_key_expires_at
    /\ UNCHANGED <<listen_key, keys_minted, lrunning, opc, total_failures, shutdowns>>
    /\ UNCHANGED otherThanLease

\* _create_listen_key, lines 49-70, called from _extend_listen_key; whatever
\* the result, the loop goes back to sleep (lines 135-137)
CreateResponse ==
    /\ kpc = "creating"
    /\ \E ok \in BOOLEAN, d \in CallDelays :
        /\ now + d <= MaxLeaseTime
        /\ now' = now + d
        /\ IF ok
           THEN /\ listen_key' = keys_minted + 1
                /\ keys_minted' = keys_minted + 1
                /\ listen_key_expires_at' = now + d + LeaseLifetime
                /\ lease_event' = "minted"
                /\ UNCHANGED total_failures
           ELSE /\ lease_event' = "mint_failed"
                /\ total_failures' = total_failures + 1
                /\ UNCHANGED <<listen_key, keys_minted, listen_key_expires_at>>
    /\ kpc' = "sleeping"
    /\ UNCHANGED <<lrunning, opc, shutdowns>>
    /\ UNCHANGED otherThanLease

KeepaliveCancelCaughtByExtend(task) ==
    IF task = "extending" THEN "creating" ELSE TaskAfterCancel(task)

\* shutdown(), lines 150-155, with _keepalive_loop, lines 139-141: the
\* CancelledError is raised at the await the task is suspended in; it is not
\* an Exception, so the handlers of _extend_listen_key and _create_listen_key
\* let it through and the loop's own handler breaks
KeepaliveAfterCancel(task) == TaskAfterCancel(task)

\* shutdown(), lines 147-155: stop and cancel the keepalive task, then start
\* deleting the key (lines 100-107); a later call finds the task finished
Shutdown ==
    /\ opc \in {"new", "ready", "shut"}
    /\ shutdowns < MaxShutdowns
    /\ shutdowns' = shutdowns + 1
    /\ lrunning' = FALSE
    /\ kpc' = KeepaliveAfterCancel(kpc)
    /\ opc' = IF listen_key = 0 THEN "shut" ELSE "deleting"
    /\ lease_event' = IF kpc \in {"extending", "creating"}
                      THEN "shutdown_in_flight" ELSE "shutdown"
    /\ UNCHANGED <<listen_key, listen_key_expires_at, keys_minted, now, total_failures>>
    /\ UNCHANGED otherThanLease

AfterReleaseRaisePropagates(outcome) == IF outcome = "raise" THEN "raised" ELSE "shut"

\* shutdown(), lines 158-160, with _delete_listen_key, lines 110-123: whatever
\* the close call gave, _delete_listen_key returns and shutdown completes
AfterRelease(outcome) == "shut"

\* _delete_listen_key, lines 107-123: the close call returns a response,
\* returns None, or raises
DeleteResponse ==
    /\ opc = "deleting"
    /\ \E outcome \in {"ok", "none", "raise"}, d \in CallDelays :
        /\ now + d <= MaxLeaseTime
        /\ now' = now + d
        /\ IF outcome = "ok"
           THEN /\ listen_key' = 0
                /\ listen_key_expires_at' = 0
                /\ lease_event' = "released"
           ELSE /\ lease_event' = "release_failed"
                /\ UNCHANGED <<listen_key, listen_key_expires_at>>
        /\ opc' = AfterRelease(outcome)
    /\ UNCHANGED <<keys_minted, lrunning, kpc, total_failures, shutdowns>>
    /\ UNCHANGED otherThanLease

NextLease ==
    \/ Initialize
    \/ KeepaliveWake
    \/ ExtendResponse
    \/ CreateResponse
    \/ Shutdown
    \/ DeleteResponse

\* C6: at the moment of every renewal attempt of the keepalive loop, the
\* lease's expiry minus the current time is greater than zero.
C6_RenewalBeforeExpiry ==
    kpc = "extending" => listen_key_expires_at - now > 0

\* C25: when the keepalive call fails (None or an exception), a new key is
\* requested in the same renewal step: the task is at the new_listen_key call
\* right after the failure, and it sleeps again only after that call is over.
C25_FailedRenewalMintsAtOnce ==
    /\ [](lease_event = "renewal_failed" => kpc = "creating")
    /\ [][(lease_event = "renewal_failed" /\ kpc' = "sleeping")
            => lease_event' \in {"minted", "mint_failed"}]_vars

C25_Witness ==
    /\ lease_event = "minted"
    /\ kpc = "sleeping"
    /\ keys_minted = 2
    /\ listen_key = 2
    /\ now < 2 * KeepaliveInterval

\* the status calls report the user-data stream as unusable
ReportsUnavailable ==
    \/ ~IsListenKeyValid
    \/ ~GetStatus.has_listen_key
    \/ ~GetStatus.running
    \/ GetStatus.expires_in_seconds = 0
    \/ GetListenKey = 0

\* C26: once the keepalive call and the re-mint have both failed in a renewal
\* step, and not for the first time, the status calls of the lease manager
\* report the user-data stream as unavailable.
C26_TotalFailureIsSurfaced ==
    (total_failures >= 2 /\ lease_event = "mint_failed") => ReportsUnavailable

-----------------------------------------------------------------------------
(* VWAPStrategy on BaseStrategy                                             *)
(* Prices are integers (1000 is the price level of the plain candle);       *)
(* ratios are compared by cross-multiplication; confidence is in 1/1000.    *)

None == -1

\* the configuration of the instance (the keys _validate_config requires),
\* but for vwap_std_multiplier, which is the variable of that name
Config ==
    [vwap_period |-> 10,
     adx_period |-> 10,
     adx_threshold |-> 20,
     volatility_threshold_pct |-> 2,      \* 'volatility_threshold': 0.02
     volatility_halt_minutes |-> 1,
     min_confidence_permille |-> 600]     \* 'min_confidence': 0.6

MinSignalInterval == 60        \* process_kline: total_seconds() < 60
MaxMarkPriceBuffer == 100      \* add_mark_price: max_buffer_size = 100
MinKlineBuffer == 200          \* add_kline: max(200, ...)

\* bounds of the strategy model
TickStep == 30                 \* the clock advances in steps of 30 s
MaxClock == 60                 \* horizon of the clock
MaxIngest == 3                 \* candles fed to the instance after the initial state
MaxOdd == 1                    \* of them, candles other than the plain closed candle
MaxMarkPrices == 1             \* mark-price ticks fed to the instance

\* the values of config['vwap_std_multiplier'] an instance is constructed with:
\* _validate_config requires the key and checks no range for it
Multipliers == {2, -2}

PlainPrice == 1000
SpikePrice == 1030
Prices == {PlainPrice, SpikePrice}

\* get_required_data_length
GetRequiredDataLength == Max(Config.vwap_period, Config.adx_period) + 10

\* add_kline, line 199
MaxBufferSize == Max(MinKlineBuffer, GetRequiredDataLength * 2)

FirstN(buf, n) == IF Len(buf) > n THEN SubSeq(buf, 1, n) ELSE buf

\* buf[-n:]
LastN(buf, n) == IF Len(buf) > n THEN SubSeq(buf, Len(buf) - n + 1, Len(buf)) ELSE buf

IsReadyWhateverState(st, buf) == Len(buf) >= GetRequiredDataLength

\* is_ready
IsReady(st, buf) == st = "ACTIVE" /\ Len(buf) >= GetRequiredDataLength

Abs(x) == IF x < 0 THEN -x ELSE x

\* indicators.check_volatility_spike(klines, lookback_seconds, threshold)
CheckVolatilitySpike(buf, lookback_seconds, threshold_pct) ==
    IF Len(buf) < 2 THEN FALSE
    ELSE LET lookback_minutes == Max(1, lookback_seconds \div 60)
             recent == LastN(buf, lookback_minutes + 1)
         IN  /\ Len(recent) >= 2
             /\ \E i \in 2..Len(recent) :
                   /\ recent[i - 1].close_price > 0
                   /\ Abs(recent[i].close_price - recent[i - 1].close_price) * 100
                        > threshold_pct * recent[i - 1].close_price

IsInVolatilityHaltNever(halt_until, t) == FALSE

\* _is_in_volatility_halt
IsInVolatilityHalt(halt_until, t) == halt_until # None /\ t < halt_until

\* process_kline, lines 250-253: the debounce test
TooSoon(last, t) == last # None /\ t - last < MinSignalInterval

\* what calculate_vwap / calculate_adx / calculate_rsi can return for a buffer;
\* the pandas computation is not reproduced, each of these results is taken to
\* be possible for every buffer. For a close of 1000 and a multiplier of 2:
IndicatorValues ==
    {[vwap |-> 1020, vwap_std |-> 0,  adx |-> 10, rsi |-> 50],   \* below the band
     [vwap |-> 980,  vwap_std |-> 0,  adx |-> 10, rsi |-> 50],   \* above the band
     [vwap |-> 1020, vwap_std |-> 0,  adx |-> 30, rsi |-> 50],   \* trending market
     [vwap |-> 1020, vwap_std |-> 0,  adx |-> 10, rsi |-> 20],   \* oversold
     [vwap |-> 980,  vwap_std |-> 0,  adx |-> 10, rsi |-> 80],   \* overbought
     [vwap |-> 1020, vwap_std |-> 20, adx |-> 10, rsi |-> 50],   \* inside the band
     [vwap |-> 1001, vwap_std |-> 0,  adx |-> 10, rsi |-> 50]}   \* deviation of 0.1 %

\* ... or the computation raises: inside calculate_vwap (nothing stored yet)
\* or inside calculate_adx (current_vwap and current_vwap_std already stored)
IndicatorOutcomes ==
    {[raises |-> "no", ind |-> v] : v \in IndicatorValues}
    \cup {[raises |-> at, ind |-> v] : at \in {"vwap", "adx"},
                                       v \in {w \in IndicatorValues : w.vwap_std = 20}}

UpperBand(ind) == ind.vwap + ind.vwap_std * vwap_std_multiplier
LowerBand(ind) == ind.vwap - ind.vwap_std * vwap_std_multiplier

ConfidenceUnclipped(deviation, price, adx) ==
    500 + (50000 * deviation) \div price
        + (300 * Max(0, Config.adx_threshold - adx)) \div Config.adx_threshold

\* min(0.95, 0.5 + (price_deviation * 50) + (adx_strength * 0.3)), in 1/1000,
\* price_deviation = deviation / price
Confidence(deviation, price, adx) ==
    Min(950, 500 + (50000 * deviation) \div price
                 + (300 * Max(0, Config.adx_threshold - adx)) \div Config.adx_threshold)

\* _generate_buy_signal, for price > 0: the list of signals it contributes
GenerateBuySignal(price, ind) ==
    IF /\ price < LowerBand(ind)
       /\ ind.adx < Config.adx_threshold
       /\ ind.rsi > 25
       /\ (LowerBand(ind) - price) * 1000 > price
       /\ Confidence(LowerBand(ind) - price, price, ind.adx) >= Config.min_confidence_permille
    THEN <<[signal_type |-> "BUY", price |-> price,
            confidence |-> Confidence(LowerBand(ind) - price, price, ind.adx),
            indicators |-> ind]>>
    ELSE <<>>

\* _generate_sell_signal, for price > 0
GenerateSellSignal(price, ind) ==
    IF /\ price > UpperBand(ind)
       /\ ind.adx < Config.adx_threshold
       /\ ind.rsi < 75
       /\ (price - UpperBand(ind)) * 1000 > price
       /\ Confidence(price - UpperBand(ind), price, ind.adx) >= Config.min_confidence_permille
    THEN <<[signal_type |-> "SELL", price |-> price,
            confidence |-> Confidence(price - UpperBand(ind), price, ind.adx),
            indicators |-> ind]>>
    ELSE <<>>

KlineStageOpenProcessed(k, buf, halt_until, t) ==
    IF CheckVolatilitySpike(buf, 5, Config.volatility_threshold_pct) THEN "spike"
    ELSE IF halt_until # None /\ t < halt_until THEN "halted"
    ELSE "indicators"

KlineStageHaltUnchecked(k, buf, halt_until, t) ==
    IF ~k.is_closed THEN "open"
    ELSE IF CheckVolatilitySpike(buf, 5, Config.volatility_threshold_pct) THEN "spike"
    ELSE "indicators"

\* how far process_kline gets for a candle on a ready instance (lines 230-253)
KlineStage(k, buf, halt_until, t) ==
    IF ~k.is_closed THEN "open"
    ELSE IF CheckVolatilitySpike(buf, 5, Config.volatility_threshold_pct) THEN "spike"
    ELSE IF IsInVolatilityHalt(halt_until, t) THEN "halted"
    ELSE "indicators"

OnIngestExceptionKeep(st) == st

\* add_kline / add_mark_price, the except branch: the state after an exception
OnIngestException(st) == "ERROR"

\* the current time is earlier than volatility_halt_until
InHaltWindow == volatility_halt_until # None /\ utcnow < volatility_halt_until

\* a call that is not an ingest
Call(op) ==
    [op |-> op, stage |-> "none", in_halt |-> FALSE, raised |-> FALSE,
     signals |-> <<>>]

\* the plain closed candle of minute i; `seq` numbers the items an instance
\* ingests in arrival order, from 1
PlainCandle(i) ==
    [open_time |-> i, close_price |-> PlainPrice, is_closed |-> TRUE, seq |-> i + 1]

\* the mark-price ticks of an instance that has been fed n of them
WarmMarkPrices(n) == [i \in 1..n |-> [mark_price |-> PlainPrice, seq |-> i]]

\* the buffer of an instance that has been fed n plain candles
WarmBuffer(n) == [i \in 1..n |-> PlainCandle(i - 1)]

\* The instance as constructed; or as constructed and then fed plain closed
\* candles up to one short of the required length; or fed until both rolling
\* buffers are full (add_kline and add_mark_price only append while the
\* instance is INACTIVE).
InitStrategy ==
    /\ state = "INACTIVE"
    /\ vwap_std_multiplier \in Multipliers
    /\ \E n \in {0, GetRequiredDataLength - 1, MaxBufferSize} :
        /\ klines = WarmBuffer(n)
        /\ feed_open_time = n
        /\ arrived = n
        /\ mark_prices = WarmMarkPrices(IF n = MaxBufferSize THEN MaxMarkPriceBuffer ELSE 0)
        /\ marks_arrived = (IF n = MaxBufferSize THEN MaxMarkPriceBuffer ELSE 0)
    /\ fed = 0
    /\ marks_fed = 0
    /\ last_signal_time = None
    /\ volatility_halt_until = None
    /\ current_vwap = 0
    /\ current_vwap_std = 0
    /\ current_adx = 0
    /\ signals_generated = 0
    /\ last_error = FALSE
    /\ utcnow = 0
    /\ odd_fed = 0
    /\ emitted = <<>>
    /\ last_call = Call("init")

NoOutcome == [raises |-> "no", ind |-> [vwap |-> 0, vwap_std |-> 0, adx |-> 0, rsi |-> 0]]

\* the signals of process_kline, lines 246-264, once the indicators are there
GeneratedSignals(price, ind, last, t) ==
    IF TooSoon(last, t) THEN <<>>
    ELSE GenerateBuySignal(price, ind) \o GenerateSellSignal(price, ind)

\* add_kline after the append, lines 204-230, with process_kline: the fields
\* of the instance after the call and the list it returns. `stage` is how far
\* the call gets, `o` what the indicator computation does.
KlineResult(k, stage, o) ==
    LET unchanged ==
            [state |-> state, halt |-> volatility_halt_until, last |-> last_signal_time,
             vwap |-> current_vwap, std |-> current_vwap_std, adx |-> current_adx,
             err |-> last_error, raised |-> FALSE, signals |-> <<>>]
        failed == [unchanged EXCEPT !.state = OnIngestException(state),
                                    !.err = TRUE, !.raised = TRUE]
        signals == GeneratedSignals(k.close_price, o.ind, last_signal_time, utcnow)
    IN  IF stage \in {"not_ready", "open", "halted"} THEN unchanged
        ELSE IF stage = "spike"
        THEN [unchanged EXCEPT !.halt = utcnow + 60 * Config.volatility_halt_minutes]
        ELSE IF o.raises = "vwap" THEN failed
        ELSE IF o.raises = "adx"
        THEN [failed EXCEPT !.vwap = o.ind.vwap, !.std = o.ind.vwap_std]
        ELSE IF k.close_price = 0 /\ ~TooSoon(last_signal_time, utcnow)
        THEN \* ZeroDivisionError in the conditions of _generate_buy_signal
             [failed EXCEPT !.vwap = o.ind.vwap, !.std = o.ind.vwap_std, !.adx = o.ind.adx]
        ELSE [unchanged EXCEPT !.vwap = o.ind.vwap, !.std = o.ind.vwap_std,
                               !.adx = o.ind.adx,
                               !.signals = signals,
                               !.last = IF signals # <<>> THEN utcnow ELSE last_signal_time]

\* StrategySignal.__init__: created_at = datetime.now(UTC)
Stamp(signals, t) ==
    [i \in DOMAIN signals |->
        [signal_type |-> signals[i].signal_type, created_at |-> t]]

\* the signals as the call returns them: type, creation time, price,
\* confidence and the indicators they were generated from
Returned(signals, t) ==
    [i \in DOMAIN signals |->
        [signal_type |-> signals[i].signal_type, created_at |-> t,
         price |-> signals[i].price, confidence |-> signals[i].confidence,
         indicators |-> signals[i].indicators]]

\* add_kline, lines 184-230
AddKline ==
    /\ fed < MaxIngest
    /\ fed' = fed + 1
    /\ arrived' = arrived + 1
    /\ \E price \in Prices, closed \in BOOLEAN :
        LET k == [open_time |-> feed_open_time, close_price |-> price, is_closed |-> closed,
                  seq |-> arrived + 1]
            odd == ~(price = PlainPrice /\ closed)
            buf == LastN(Append(klines, k), MaxBufferSize)
            stage == IF IsReady(state, buf)
                     THEN KlineStage(k, buf, volatility_halt_until, utcnow)
                     ELSE "not_ready"
        IN  /\ odd => odd_fed < MaxOdd
            /\ odd_fed' = IF odd THEN odd_fed + 1 ELSE odd_fed
            /\ feed_open_time' = IF closed THEN feed_open_time + 1 ELSE feed_open_time
            /\ klines' = buf
            /\ \E o \in (IF stage = "indicators" THEN IndicatorOutcomes ELSE {NoOutcome}) :
                LET r == KlineResult(k, stage, o)
                IN  /\ state' = r.state
                    /\ volatility_halt_until' = r.halt
                    /\ last_signal_time' = r.last
                    /\ current_vwap' = r.vwap
                    /\ current_vwap_std' = r.std
                    /\ current_adx' = r.adx
                    /\ last_error' = r.err
                    /\ signals_generated' = signals_generated + Len(r.signals)
                    /\ emitted' = emitted \o Stamp(r.signals, utcnow)
                    /\ last_call' = [op |-> "add_kline",
                                     stage |-> stage,
                                     in_halt |-> InHaltWindow,
                                     raised |-> r.raised,
                                     signals |-> Returned(r.signals, utcnow)]
    /\ UNCHANGED <<mark_prices, utcnow, vwap_std_multiplier, marks_fed, marks_arrived>>
    /\ UNCHANGED otherThanStrat

\* add_mark_price, lines 232-277; VWAPStrategy.process_mark_price returns []
AddMarkPrice ==
    /\ marks_fed < MaxMarkPrices
    /\ marks_fed' = marks_fed + 1
    /\ marks_arrived' = marks_arrived + 1
    /\ mark_prices' = LastN(Append(mark_prices, [mark_price |-> PlainPrice,
                                                 seq |-> marks_arrived + 1]),
                            MaxMarkPriceBuffer)
    /\ last_call' = [op |-> "add_mark_price",
                     stage |-> IF IsReady(state, klines) THEN "mark_price" ELSE "not_ready",
                     in_halt |-> InHaltWindow,
                     raised |-> FALSE, signals |-> <<>>]
    /\ UNCHANGED <<state, klines, last_signal_time, volatility_halt_until, current_vwap,
                   current_vwap_std, current_adx, signals_generated, last_error, utcnow,
                   feed_open_time, fed, odd_fed, emitted,
                   vwap_std_multiplier, arrived>>
    /\ UNCHANGED otherThanStrat

\* start, lines 135-149: the state after the call
StartState(st) == "ACTIVE"

\* start()
Start ==
    /\ state' = StartState(state)
    /\ last_call' = Call(IF state = "ERROR" THEN "restart" ELSE "start")
    /\ UNCHANGED <<klines, mark_prices, last_signal_time, volatility_halt_until,
                   current_vwap, current_vwap_std, current_adx, signals_generated,
                   last_error, utcnow, feed_open_time, fed, odd_fed, emitted,
                   vwap_std_multiplier, marks_fed, arrived, marks_arrived>>
    /\ UNCHANGED otherThanStrat

PauseStateWhateverState(st) == "PAUSED"

\* pause, lines 154-158: the state after the call
PauseState(st) == IF st = "ACTIVE" THEN "PAUSED" ELSE st

\* pause, lines 154-160: the value it returns
PauseReturns(st) == st = "ACTIVE"

\* pause(), lines 151-163
Pause ==
    /\ state' = PauseState(state)
    /\ last_call' = Call(IF PauseReturns(state) THEN "pause" ELSE "pause_refused")
    /\ UNCHANGED <<klines, mark_prices, last_signal_time, volatility_halt_until,
                   current_vwap, current_vwap_std, current_adx, signals_generated,
                   last_error, utcnow, feed_open_time, fed, odd_fed, emitted,
                   vwap_std_multiplier, marks_fed, arrived, marks_arrived>>
    /\ UNCHANGED otherThanStrat

\* stop(), lines 165-175
Stop ==
    /\ state' = "INACTIVE"
    /\ last_call' = Call("stop")
    /\ UNCHANGED <<klines, mark_prices, last_signal_time, volatility_halt_until,
                   current_vwap, current_vwap_std, current_adx, signals_generated,
                   last_error, utcnow, feed_open_time, fed, odd_fed, emitted,
                   vwap_std_multiplier, marks_fed, arrived, marks_arrived>>
    /\ UNCHANGED otherThanStrat

\* the wall clock advances
Tick ==
    /\ utcnow + TickStep <= MaxClock
    /\ utcnow' = utcnow + TickStep
    /\ UNCHANGED <<state, klines, mark_prices, last_signal_time, volatility_halt_until,
                   current_vwap, current_vwap_std, current_adx, signals_generated,
                   last_error, feed_open_time, fed, odd_fed, emitted, last_call,
                   vwap_std_multiplier, marks_fed, arrived, marks_arrived>>
    /\ UNCHANGED otherThanStrat

NextStrategy ==
    \/ AddKline
    \/ AddMarkPrice
    \/ Start
    \/ Pause
    \/ Stop
    \/ Tick

-----------------------------------------------------------------------------
(* Properties of the strategy instance                                      *)

\* C3: no two signals emitted by the same instance are closer together in
\* time than the minimum interval (60 s), whether they were returned by
\* different ingest calls or by one ingest call.
C3_Debounce ==
    \A i, j \in DOMAIN emitted :
        i < j => emitted[j].created_at - emitted[i].created_at >= MinSignalInterval

\* C4: while the instance is in a volatility halt (current time earlier than
\* volatility_halt_until) an ingest call emits no signal.
C4_NoSignalDuringHalt ==
    (last_call.op \in {"add_kline", "add_mark_price"} /\ last_call.in_halt)
        => last_call.signals = <<>>

C4_Witness ==
    /\ last_call.op = "add_kline"
    /\ last_call.in_halt
    /\ last_call.stage = "halted"
    /\ state = "ACTIVE"
    /\ klines[Len(klines)].is_closed

\* C5: an exception raised while ingesting is caught inside the instance: the
\* call returns an empty list and the state becomes ERROR; a following start()
\* returns the instance to ACTIVE.
C5_ExceptionContained ==
    /\ last_call.raised =>
          /\ state = "ERROR"
          /\ last_error
          /\ last_call.signals = <<>>
    /\ last_call.op = "restart" => state = "ACTIVE"

C5_Witness ==
    /\ last_call.op = "restart"
    /\ last_error
    /\ state = "ACTIVE"

\* C16: from ERROR the only state change any operation causes is
\* ERROR -> ACTIVE through start(); ingesting, pause() and every other
\* operation leave the instance in ERROR.
C16_ErrorLeftOnlyByStart ==
    [][state = "ERROR" =>
          \/ state' = "ERROR"
          \/ (state' = "ACTIVE" /\ last_call'.op = "restart")]_vars

\* a step that is an add_kline call / an add_mark_price call
IsKlineIngest == arrived' = arrived + 1
IsMarkPriceIngest == marks_arrived' = marks_arrived + 1

LatestInOrder(buf, n) == \A i \in DOMAIN buf : buf[i].seq = n - Len(buf) + i

\* C18: each rolling buffer (candles, mark-price ticks) holds at most
\* max(200, 2 x required length) items, and they are the most recently
\* ingested items in arrival order.
C18_RollingBuffers ==
    /\ Len(klines) <= Max(200, 2 * GetRequiredDataLength)
    /\ Len(mark_prices) <= Max(200, 2 * GetRequiredDataLength)
    /\ LatestInOrder(klines, arrived)
    /\ LatestInOrder(mark_prices, marks_arrived)

C18_Witness ==
    /\ fed > 0
    /\ marks_fed > 0
    /\ arrived > Len(klines)
    /\ marks_arrived > Len(mark_prices)
    /\ Len(klines) = Max(200, 2 * GetRequiredDataLength)

\* C19: whenever an ingested (closed) candle makes the relative price change
\* over the lookback window exceed the threshold, the instance enters a halt
\* of the configured duration from that moment, whether it is ACTIVE or
\* PAUSED; and pause() / start() neither clear nor shorten a halt.
C19_SpikeHaltsWhateverLifecycle ==
    /\ [][(/\ IsKlineIngest
            /\ state \in {"ACTIVE", "PAUSED"}
            /\ Len(klines') >= GetRequiredDataLength
            /\ klines'[Len(klines')].is_closed
            /\ CheckVolatilitySpike(klines', 5, Config.volatility_threshold_pct))
          => volatility_halt_until' = utcnow + 60 * Config.volatility_halt_minutes]_vars
    /\ [][last_call'.op \in {"start", "restart", "pause", "pause_refused", "stop"}
          => volatility_halt_until' = volatility_halt_until]_vars

\* C20: a BUY or SELL signal is emitted only if all gates hold for the
\* candle: price beyond the band, ADX below the threshold, RSI above 25 (BUY)
\* or below 75 (SELL), deviation above 0.1 % of the price; and its confidence
\* is at most 0.95 and at least min_confidence.
C20_SignalGates ==
    \A i \in DOMAIN last_call.signals :
        LET sig   == last_call.signals[i]
            ind   == sig.indicators
            upper == ind.vwap + ind.vwap_std * vwap_std_multiplier
            lower == ind.vwap - ind.vwap_std * vwap_std_multiplier
        IN  /\ sig.signal_type \in {"BUY", "SELL"}
            /\ sig.price = klines[Len(klines)].close_price
            /\ ind.adx < Config.adx_threshold
            /\ sig.confidence <= 950
            /\ sig.confidence >= Config.min_confidence_permille
            /\ sig.signal_type = "BUY" =>
                  /\ sig.price < lower
                  /\ ind.rsi > 25
                  /\ (lower - sig.price) * 1000 > sig.price
            /\ sig.signal_type = "SELL" =>
                  /\ sig.price > upper
                  /\ ind.rsi < 75
                  /\ (sig.price - upper) * 1000 > sig.price

C20_Witness ==
    /\ last_call.op = "add_kline"
    /\ Len(last_call.signals) = 1
    /\ last_call.signals[1].signal_type = "SELL"
    /\ last_call.signals[1].confidence = 950
    /\ vwap_std_multiplier = 2

\* C34: pause() moves an ACTIVE instance to PAUSED and returns True; in any
\* other state it returns False and leaves the state as it is. So an instance
\* becomes PAUSED only from ACTIVE, by pause(), and a PAUSED instance leaves
\* PAUSED only by start() (resume), to ACTIVE, or by stop(), to INACTIVE.
C34_PauseOnlyFromActive ==
    /\ [][Pause => IF state = "ACTIVE"
                   THEN state' = "PAUSED" /\ last_call'.op = "pause"
                   ELSE state' = state /\ last_call'.op = "pause_refused"]_vars
    /\ [][(state' = "PAUSED" /\ state # "PAUSED") => (state = "ACTIVE" /\ Pause)]_vars
    /\ [][(state = "PAUSED" /\ state' # "PAUSED")
            => \/ (state' = "ACTIVE" /\ Start)
               \/ (state' = "INACTIVE" /\ Stop)]_vars

C34_Witness ==
    /\ state = "PAUSED"
    /\ last_call.op = "pause_refused"
    /\ Len(klines) >= GetRequiredDataLength
    /\ fed > 0

\* C35: an add_kline call made while the halt is in force, or one whose
\* candle sets the halt, does not get to the indicator computation:
\* current_vwap, current_vwap_std and current_adx keep their values.
C35_HaltCheckBeforeIndicators ==
    [][(IsKlineIngest /\ (InHaltWindow \/ volatility_halt_until' # volatility_halt_until))
        => /\ last_call'.stage # "indicators"
           /\ ~last_call'.raised
           /\ UNCHANGED <<current_vwap, current_vwap_std, current_adx>>]_vars

C35_Witness ==
    /\ last_call.op = "add_kline"
    /\ last_call.stage = "spike"
    /\ volatility_halt_until = utcnow + 60 * Config.volatility_halt_minutes
    /\ current_vwap # 0
    /\ current_adx # 0
    /\ state = "ACTIVE"

\* C39: an add_kline call with a candle that is not closed returns no signal
\* and leaves the halt, the stored indicators, the debounce timestamp, the
\* signal count and the lifecycle state as they were.
C39_OpenCandleDecidesNothing ==
    [][(IsKlineIngest /\ ~klines'[Len(klines')].is_closed)
        => /\ last_call'.signals = <<>>
           /\ emitted' = emitted
           /\ UNCHANGED <<volatility_halt_until, current_vwap, current_vwap_std,
                          current_adx, last_signal_time, signals_generated, state>>]_vars

C39_Witness ==
    /\ last_call.op = "add_kline"
    /\ last_call.stage = "open"
    /\ state = "ACTIVE"
    /\ ~klines[Len(klines)].is_closed
    /\ klines[Len(klines)].close_price = SpikePrice
    /\ volatility_halt_until = None
    /\ current_vwap # 0

\* C33: the candle buffer of an instance holds at most one candle for an
\* open time: no two of its entries have the same open_time.
C33_OneCandlePerOpenTime ==
    \A i, j \in DOMAIN klines :
        klines[i].open_time = klines[j].open_time => i = j

-----------------------------------------------------------------------------
(* StrategyInstance and StrategyManager                                     *)
(* The strategy inside an instance is reduced to its lifecycle state and    *)
(* the lengths of its two buffers; what it returns for an item is a choice  *)
(* among the outcomes of BaseStrategy.add_kline / add_mark_price.           *)

\* the strategy classes of the registry and the symbols items arrive for
StrategyNames == {"vwap", "trend"}
ManagedSymbols == {"BTCUSDT", "ETHUSDT"}

\* create_strategy, line 212: instance_key = f"{strategy_name}_{symbol}",
\* kept as the pair (no name of the registry contains the separator)
InstanceKey(strategy_name, symbol) == <<strategy_name, symbol>>

InstanceKeys == {InstanceKey(n, s) : n \in StrategyNames, s \in ManagedSymbols}

\* create_strategy, lines 197-201: the pairs load_symbol_config enables
EnabledKeys == InstanceKeys \ {InstanceKey("trend", "ETHUSDT")}

\* the callables handed to add_global_signal_callback
Subscribers == {"on_signal_a", "on_signal_b"}

\* bound of the manager model: calls made on the manager in one run
MaxManagerCalls == 4

\* the order in which self.instances is walked, for keys present
KeyOrder ==
    <<InstanceKey("vwap", "BTCUSDT"), InstanceKey("trend", "BTCUSDT"),
      InstanceKey("vwap", "ETHUSDT"), InstanceKey("trend", "ETHUSDT")>>

KeyRank(key) == CHOOSE i \in DOMAIN KeyOrder : KeyOrder[i] = key

\* a key that is not in self.instances
NoInstance ==
    [present |-> FALSE, symbol |-> "", state |-> "INACTIVE", klines |-> 0,
     mark_prices |-> 0, total_signals |-> 0, error_count |-> 0,
     signal_callbacks |-> <<>>]

\* StrategyInstance.__init__, lines 84-96, around a strategy that create_strategy
\* has started (lines 208-220): the callbacks are the global ones of that moment
NewInstance(symbol, callbacks) ==
    [present |-> TRUE, symbol |-> symbol, state |-> "ACTIVE", klines |-> 0,
     mark_prices |-> 0, total_signals |-> 0, error_count |-> 0,
     signal_callbacks |-> callbacks]

Signal(key, n) == [instance |-> key, n |-> n]

\* what strategy.add_kline / add_mark_price does with an item: it returns no
\* signal, one or two; it fails inside (state ERROR, returns []); or the call
\* raises.  Only an ACTIVE strategy gets as far as processing (is_ready).
StrategyOutcomes(inst) ==
    IF inst.state = "ACTIVE"
    THEN {"none", "one", "two", "error", "raise"}
    ELSE {"none"}

StrategyReturn(key, outcome) ==
    IF outcome = "one" THEN <<Signal(key, 1)>>
    ELSE IF outcome = "two" THEN <<Signal(key, 1), Signal(key, 2)>>
    ELSE <<>>

Invocation(signal, callbacks, raising, i) ==
    [signal |-> signal, position |-> i, callback |-> callbacks[i],
     raised |-> callbacks[i] \in raising]

InvokeCallbacksUntilRaise(signal, callbacks, raising) ==
    LET stops == {i \in 1..Len(callbacks) : callbacks[i] \in raising}
        last == IF stops = {} THEN Len(callbacks)
                ELSE CHOOSE i \in stops : \A j \in stops : i <= j
    IN [i \in 1..last |-> Invocation(signal, callbacks, raising, i)]

\* _handle_signals, lines 107-113: every callback is called with the signal,
\* each call in its own try / except
InvokeCallbacks(signal, callbacks, raising) ==
    [i \in 1..Len(callbacks) |-> Invocation(signal, callbacks, raising, i)]

RECURSIVE HandleSignalsFrom(_, _, _, _)
HandleSignalsFrom(i, signals, callbacks, raising) ==
    IF i > Len(signals) THEN <<>>
    ELSE InvokeCallbacks(signals[i], callbacks, raising)
             \o HandleSignalsFrom(i + 1, signals, callbacks, raising)

\* _handle_signals, lines 102-113: the calls made for a list of signals
HandleSignals(signals, callbacks, raising) ==
    HandleSignalsFrom(1, signals, callbacks, raising)

ErrorsIn(log) == Cardinality({i \in DOMAIN log : log[i].raised})

\* StrategyInstance.process_kline, lines 118-120: the list returned is the
\* list the strategy returned
ReturnedSignals(signals) == signals

\* StrategyInstance.process_kline / process_mark_price, lines 115-135, with
\* the strategy's add_kline / add_mark_price (base.py, lines 184-277)
InstanceProcess(inst, key, op, outcome, raising) ==
    IF outcome = "raise"
    THEN [inst |-> [inst EXCEPT !.error_count = @ + 1],
          generated |-> <<>>, returned |-> <<>>, log |-> <<>>]
    ELSE LET signals == StrategyReturn(key, outcome)
             log == HandleSignals(signals, inst.signal_callbacks, raising)
         IN [inst |-> [inst EXCEPT
                         !.klines = IF op = "process_kline"
                                    THEN Min(@ + 1, MinKlineBuffer) ELSE @,
                         !.mark_prices = IF op = "process_mark_price"
                                         THEN Min(@ + 1, MaxMarkPriceBuffer) ELSE @,
                         !.state = IF outcome = "error" THEN "ERROR" ELSE @,
                         !.total_signals = @ + Len(signals),
                         !.error_count = @ + ErrorsIn(log)],
             generated |-> signals,
             returned |-> ReturnedSignals(signals),
             log |-> log]

MatchesAny(inst, symbol) == inst.present

\* StrategyManager.process_kline, line 281: instance.strategy.symbol == kline.symbol
Matches(inst, symbol) == inst.present /\ inst.symbol = symbol

LoopUntilFailure(key, symbol, outcome) ==
    \A k \in InstanceKeys :
        (KeyRank(k) < KeyRank(key) /\ Matches(instances[k], symbol))
            => outcome[k[1]] \notin {"raise", "error"}

\* StrategyManager.process_kline, lines 280-284: the loop goes on to the next
\* instance whatever the earlier ones did, no exception leaves an instance
LoopReaches(key, symbol, outcome) == TRUE

Called(key, symbol, outcome) ==
    /\ Matches(instances[key], symbol)
    /\ LoopReaches(key, symbol, outcome)

NoRoute(op) ==
    [op |-> op, symbol |-> "", called |-> {},
     outcomes |-> [k \in InstanceKeys |-> "skipped"],
     generated |-> [k \in InstanceKeys |-> <<>>],
     results |-> [k \in InstanceKeys |-> <<>>],
     log |-> [k \in InstanceKeys |-> <<>>]]

InitManager ==
    /\ instances = [k \in InstanceKeys |-> NoInstance]
    /\ global_signal_callbacks = <<>>
    /\ calls = 0
    /\ last_route = NoRoute("new")

\* add_global_signal_callback, lines 174-176 (each callable is registered once)
AddGlobalSignalCallback ==
    /\ \E cb \in Subscribers :
        /\ \A i \in DOMAIN global_signal_callbacks : global_signal_callbacks[i] # cb
        /\ global_signal_callbacks' = Append(global_signal_callbacks, cb)
    /\ last_route' = NoRoute("other")
    /\ calls < MaxManagerCalls
    /\ calls' = calls + 1
    /\ UNCHANGED instances
    /\ UNCHANGED otherThanMgr

\* create_strategy, lines 178-230
CreateStrategy ==
    /\ \E strategy_name \in StrategyNames, symbol \in ManagedSymbols :
        LET key == InstanceKey(strategy_name, symbol) IN
        IF key \in EnabledKeys
        THEN instances' = [instances EXCEPT
                             ![key] = NewInstance(symbol, global_signal_callbacks)]
        ELSE UNCHANGED instances
    /\ last_route' = NoRoute("other")
    /\ calls < MaxManagerCalls
    /\ calls' = calls + 1
    /\ UNCHANGED global_signal_callbacks
    /\ UNCHANGED otherThanMgr

\* stop_strategy, lines 232-250: stop() succeeds and the instance is removed
StopStrategy ==
    /\ \E key \in InstanceKeys :
        IF instances[key].present
        THEN instances' = [instances EXCEPT ![key] = NoInstance]
        ELSE UNCHANGED instances
    /\ last_route' = NoRoute("other")
    /\ calls < MaxManagerCalls
    /\ calls' = calls + 1
    /\ UNCHANGED global_signal_callbacks
    /\ UNCHANGED otherThanMgr

\* pause_strategy, lines 252-258, with BaseStrategy.pause (base.py, lines 151-163)
PauseStrategy ==
    /\ \E key \in InstanceKeys :
        IF instances[key].present
        THEN instances' = [instances EXCEPT ![key].state = PauseState(@)]
        ELSE UNCHANGED instances
    /\ last_route' = NoRoute("other")
    /\ calls < MaxManagerCalls
    /\ calls' = calls + 1
    /\ UNCHANGED global_signal_callbacks
    /\ UNCHANGED otherThanMgr

\* resume_strategy, lines 260-266, with BaseStrategy.start (base.py, lines 135-149)
ResumeStrategy ==
    /\ \E key \in InstanceKeys :
        IF instances[key].present
        THEN instances' = [instances EXCEPT ![key].state = "ACTIVE"]
        ELSE UNCHANGED instances
    /\ last_route' = NoRoute("other")
    /\ calls < MaxManagerCalls
    /\ calls' = calls + 1
    /\ UNCHANGED global_signal_callbacks
    /\ UNCHANGED otherThanMgr

\* StrategyManager.process_kline / process_mark_price, lines 268-306: one
\* routing call, every instance it reaches included
Route(op) ==
    /\ calls < MaxManagerCalls
    /\ \E symbol \in ManagedSymbols,
          outcome \in [StrategyNames -> {"none", "one", "two", "error", "raise"}],
          raising \in SUBSET Subscribers :
        LET called == {k \in InstanceKeys : Called(k, symbol, outcome)}
            done == [k \in called |->
                        InstanceProcess(instances[k], k, op, outcome[k[1]], raising)]
        IN /\ \A k \in called : outcome[k[1]] \in StrategyOutcomes(instances[k])
           \* one choice stands for all that differ only where nothing is called
           /\ \A n \in StrategyNames :
                  (\A k \in called : k[1] # n) => outcome[n] = "none"
           /\ (\A k \in called : done[k].generated = <<>>
                                 \/ instances[k].signal_callbacks = <<>>)
                  => raising = {}
           /\ instances' = [k \in InstanceKeys |->
                               IF k \in called THEN done[k].inst ELSE instances[k]]
           /\ last_route' =
                  [op |-> op, symbol |-> symbol, called |-> called,
                   outcomes |-> [k \in InstanceKeys |->
                                    IF k \in called THEN outcome[k[1]] ELSE "skipped"],
                   generated |-> [k \in InstanceKeys |->
                                    IF k \in called THEN done[k].generated ELSE <<>>],
                   results |-> [k \in InstanceKeys |->
                                    IF k \in called THEN done[k].returned ELSE <<>>],
                   log |-> [k \in InstanceKeys |->
                                    IF k \in called THEN done[k].log ELSE <<>>]]
    /\ calls' = calls + 1
    /\ UNCHANGED global_signal_callbacks
    /\ UNCHANGED otherThanMgr

ProcessKline == Route("process_kline")

ProcessMarkPrice == Route("process_mark_price")

NextManager ==
    \/ AddGlobalSignalCallback
    \/ CreateStrategy
    \/ StopStrategy
    \/ PauseStrategy
    \/ ResumeStrategy
    \/ ProcessKline
    \/ ProcessMarkPrice

IsRouting(r) == r.op \in {"process_kline", "process_mark_price"}

\* what an instance's own processing adds to its error_count in a routing call
OwnErrors(r, k) ==
    ErrorsIn(r.log[k]) + (IF r.outcomes[k] = "raise" THEN 1 ELSE 0)

Failed(r, k) == r.outcomes[k] \in {"error", "raise"}

\* C21: when the processing of one instance fails in a routing call, every
\* other instance with the item's symbol is still called in that call and its
\* buffers, state and counters change by its own processing only.
C21_SiblingsUnaffectedByFailure ==
    [][IsRouting(last_route') =>
        \A k \in InstanceKeys :
            (/\ instances[k].present
             /\ instances[k].symbol = last_route'.symbol
             /\ \E j \in InstanceKeys \ {k} :
                    /\ instances[j].present
                    /\ instances[j].symbol = last_route'.symbol
                    /\ Failed(last_route', j))
            => /\ k \in last_route'.called
               /\ last_route'.outcomes[k] # "skipped"
               /\ last_route'.outcomes[k] # "raise" =>
                    /\ instances'[k].klines + instances'[k].mark_prices
                           = instances[k].klines + instances[k].mark_prices + 1
                    /\ instances'[k].state =
                           IF last_route'.outcomes[k] = "error" THEN "ERROR"
                           ELSE instances[k].state
               /\ instances'[k].total_signals
                      = instances[k].total_signals + Len(last_route'.generated[k])
               /\ instances'[k].error_count
                      = instances[k].error_count + OwnErrors(last_route', k)
               /\ instances'[k].signal_callbacks = instances[k].signal_callbacks
               /\ last_route'.results[k] = last_route'.generated[k]]_vars

C21_Witness ==
    /\ last_route.op = "process_kline"
    /\ \E j, k \in last_route.called :
        /\ j # k
        /\ KeyRank(j) < KeyRank(k)
        /\ last_route.outcomes[j] = "raise"
        /\ last_route.outcomes[k] = "one"
        /\ instances[k].klines = 1
        /\ instances[k].state = "ACTIVE"
        /\ instances[k].total_signals = 1
        /\ instances[k].error_count = 0

\* C22: a routing call (candle or mark-price tick) calls only the instances
\* whose symbol equals the item's symbol, and leaves every instance bound to
\* another symbol exactly as it was.
C22_RoutedBySymbolOnly ==
    [][IsRouting(last_route') =>
        /\ \A k \in last_route'.called :
               instances[k].present /\ instances[k].symbol = last_route'.symbol
        /\ \A k \in InstanceKeys :
               (instances[k].present /\ instances[k].symbol # last_route'.symbol)
               => /\ instances'[k] = instances[k]
                  /\ last_route'.outcomes[k] = "skipped"]_vars

C22_Witness ==
    /\ IsRouting(last_route)
    /\ \E k \in last_route.called :
           instances[k].klines + instances[k].mark_prices = 1
    /\ \E k \in InstanceKeys :
        /\ instances[k].present
        /\ instances[k].symbol # last_route.symbol
        /\ instances[k].klines = 0
        /\ instances[k].mark_prices = 0

\* the number of times the callback at position p of the instance's list was
\* called with the signal
TimesInvoked(log, signal, p) ==
    Cardinality({e \in DOMAIN log : log[e].signal = signal /\ log[e].position = p})

\* C23: for every signal an instance emits, each callback registered on the
\* instance is invoked exactly once, whichever callbacks raise, and the list
\* returned to the caller is the list the strategy generated.
C23_EachCallbackOncePerSignal ==
    IsRouting(last_route) =>
        \A k \in last_route.called :
            /\ last_route.results[k] = last_route.generated[k]
            /\ \A i \in DOMAIN last_route.generated[k] :
               \A p \in DOMAIN instances[k].signal_callbacks :
                   TimesInvoked(last_route.log[k], last_route.generated[k][i], p) = 1

C23_Witness ==
    /\ IsRouting(last_route)
    /\ \E k \in last_route.called :
        /\ Len(last_route.generated[k]) = 2
        /\ Len(instances[k].signal_callbacks) = 2
        /\ Len(last_route.log[k]) = 4
        /\ last_route.log[k][1].raised
        /\ ~last_route.log[k][2].raised
        /\ instances[k].error_count = 2
        /\ last_route.results[k] = last_route.generated[k]

\* C24: every signal an instance generates is delivered to every subscriber
\* registered with add_global_signal_callback, whatever the order of the
\* registrations and the creations of instances.
C24_EverySubscriberGetsEverySignal ==
    IsRouting(last_route) =>
        \A k \in last_route.called :
        \A i \in DOMAIN last_route.generated[k] :
        \A c \in DOMAIN global_signal_callbacks :
            \E e \in DOMAIN last_route.log[k] :
                /\ last_route.log[k][e].signal = last_route.generated[k][i]
                /\ last_route.log[k][e].callback = global_signal_callbacks[c]

-----------------------------------------------------------------------------
(* TimeSynchronizer                                                         *)
(* Times are integer milliseconds, as int(time.time() * 1000) gives them.   *)

SyncInterval == 300            \* self._sync_interval = 300 (seconds)

\* bounds of the synchronizer model: probes sent in one run, and how long a
\* probe may take (milliseconds)
MaxProbes == 3
ProbeDelay == 3

ProbeDelays == {0, ProbeDelay}

\* what the exchange's clock shows minus what the local clock shows when the
\* response is read
ServerSkews == {-7, 0, 250}

\* the coroutines that call start_sync (nothing keeps two from calling it)
Starters == {"start_sync", "start_sync_again"}

\* the coroutines that run _sync_time: the callers of start_sync and the task
\* of _sync_loop that self._sync_task names
Callers == Starters \cup {"sync_loop"}

NoProbe ==
    [caller |-> "none", ok |-> FALSE, request_time |-> 0, response_time |-> 0,
     server_time |-> 0, successes |-> 0, n |-> 0]

NetworkDelayRoundTrip(request, response) == response - request

\* _sync_time, line 87
NetworkDelay(request, response) == (response - request) \div 2

\* _sync_time, lines 87-92: adjusted_server_time - local_time
TimeOffset(server_time, request, response) ==
    (server_time + NetworkDelay(request, response)) - response

IsSynchronizedNonZero == time_offset # <<>> /\ time_offset # <<0>>

\* is_synchronized, lines 131-133
IsSynchronized == time_offset # <<>>

\* get_server_time, lines 111-120
GetServerTime ==
    IF time_offset = <<>> THEN local_ms ELSE local_ms + time_offset[1]

InitSync ==
    /\ time_offset = <<>>
    /\ last_sync_time = <<>>
    /\ sync_running = FALSE
    /\ sync_task = "none"
    /\ starter = [s \in Starters |-> "idle"]
    /\ orphans = <<>>
    /\ request_time = [c \in Callers |-> 0]
    /\ local_ms = 0
    /\ probes = 0
    /\ last_probe = NoProbe

\* _sync_time, lines 74-78: the request time is recorded and the GET is sent
SendProbe(caller) ==
    /\ probes < MaxProbes
    /\ probes' = probes + 1
    /\ request_time' = [request_time EXCEPT ![caller] = local_ms]

OffsetClearedByFailedProbe(offset) == <<>>

\* _sync_time, lines 104-109: a response other than 200 and an exception are
\* logged; self._time_offset is not assigned
OffsetAfterFailedProbe(offset) == offset

\* _sync_time, lines 78-109: the GET completes after some delay; a 200
\* response with a server time is stored, anything else only logged
ProbeCompletesAt(caller, request) ==
    \E d \in ProbeDelays, ok \in BOOLEAN, skew \in ServerSkews, has_time \in BOOLEAN :
        LET response_time == local_ms + d
            \* int(data.get("serverTime", 0))
            server_time == IF has_time THEN response_time + skew ELSE 0
        IN /\ local_ms' = response_time
           /\ ~ok => (skew = 0 /\ has_time)
           /\ ~has_time => skew = 0
           /\ IF ok
              THEN /\ time_offset' = <<TimeOffset(server_time, request, response_time)>>
                   /\ last_sync_time' = <<response_time>>
              ELSE /\ time_offset' = OffsetAfterFailedProbe(time_offset)
                   /\ UNCHANGED last_sync_time
           /\ last_probe' =
                  [caller |-> caller, ok |-> ok,
                   request_time |-> request,
                   response_time |-> response_time,
                   server_time |-> IF ok THEN server_time ELSE 0,
                   successes |-> last_probe.successes + (IF ok THEN 1 ELSE 0),
                   n |-> last_probe.n + 1]

ProbeCompletes(caller) == ProbeCompletesAt(caller, request_time[caller])

\* start_sync, lines 29-37: nothing to do when running, else the initial probe
StartSync ==
    /\ \E s \in Starters :
        /\ starter[s] = "idle"
        /\ ~sync_running
        /\ SendProbe(s)
        /\ starter' = [starter EXCEPT ![s] = "probing"]
    /\ UNCHANGED <<time_offset, last_sync_time, sync_running, sync_task, local_ms,
                   last_probe, orphans>>
    /\ UNCHANGED otherThanSync

\* a task that goes on when self._sync_task is given another task
Orphaned(task, request) ==
    IF task \in {"sleeping", "probing"}
    THEN <<[pos |-> task, request_time |-> request]>>
    ELSE <<>>

\* start_sync, lines 37-40: the initial probe is over, whatever it gave; the
\* service is marked running and a task of _sync_loop is created and stored
\* in self._sync_task, whatever that named before
StartSyncProbed ==
    /\ \E s \in Starters :
        /\ starter[s] = "probing"
        /\ ProbeCompletes(s)
        /\ starter' = [starter EXCEPT ![s] = "idle"]
    /\ sync_running' = TRUE
    /\ sync_task' = "sleeping"
    /\ orphans' = orphans \o Orphaned(sync_task, request_time["sync_loop"])
    /\ UNCHANGED <<request_time, probes>>
    /\ UNCHANGED otherThanSync

\* _sync_loop, lines 57-62: the sleep of _sync_interval is over
SyncLoopWake ==
    /\ sync_task = "sleeping"
    /\ local_ms' = local_ms + SyncInterval * 1000
    /\ IF sync_running
       THEN /\ SendProbe("sync_loop")
            /\ sync_task' = "probing"
       ELSE /\ sync_task' = "done"
            /\ UNCHANGED <<request_time, probes>>
    /\ UNCHANGED <<time_offset, last_sync_time, sync_running, starter, last_probe,
                   orphans>>
    /\ UNCHANGED otherThanSync

\* _sync_loop, line 62: the probe of the loop is over
SyncLoopProbed ==
    /\ sync_task = "probing"
    /\ ProbeCompletes("sync_loop")
    /\ sync_task' = "sleeping"
    /\ UNCHANGED <<sync_running, starter, request_time, probes, orphans>>
    /\ UNCHANGED otherThanSync

\* _sync_loop, lines 57-62, in a task self._sync_task no longer names: the
\* sleep is over
OrphanWake ==
    /\ \E i \in DOMAIN orphans :
        /\ orphans[i].pos = "sleeping"
        /\ IF sync_running
           THEN /\ probes < MaxProbes
                /\ probes' = probes + 1
                /\ orphans' = [orphans EXCEPT
                                 ![i] = [pos |-> "probing", request_time |-> local_ms]]
           ELSE /\ orphans' = [orphans EXCEPT ![i].pos = "done"]
                /\ UNCHANGED probes
    /\ UNCHANGED <<time_offset, last_sync_time, sync_running, sync_task, starter,
                   request_time, local_ms, last_probe>>
    /\ UNCHANGED otherThanSync

\* _sync_loop, line 62, in such a task: its probe is over
OrphanProbed ==
    /\ \E i \in DOMAIN orphans :
        /\ orphans[i].pos = "probing"
        /\ ProbeCompletesAt("orphan", orphans[i].request_time)
        /\ orphans' = [orphans EXCEPT ![i].pos = "sleeping"]
    /\ UNCHANGED <<sync_running, sync_task, starter, request_time, probes>>
    /\ UNCHANGED otherThanSync

\* stop_sync, lines 42-53: the task self._sync_task names, if any, is
\* cancelled where it waits and awaited (_sync_loop, lines 64-65)
StopSync ==
    /\ sync_running' = FALSE
    /\ sync_task' = TaskAfterCancel(sync_task)
    /\ UNCHANGED <<time_offset, last_sync_time, starter, request_time, local_ms, probes,
                   last_probe, orphans>>
    /\ UNCHANGED otherThanSync

NextSync ==
    \/ StartSync
    \/ StartSyncProbed
    \/ SyncLoopWake
    \/ SyncLoopProbed
    \/ OrphanWake
    \/ OrphanProbed
    \/ StopSync

\* the tasks of _sync_loop that have not ended
LiveLoops ==
    (IF sync_task \in {"sleeping", "probing"} THEN 1 ELSE 0)
        + Cardinality({i \in DOMAIN orphans : orphans[i].pos \in {"sleeping", "probing"}})

\* C31: at most one task of _sync_loop is alive at any time, also when
\* start_sync is called while an earlier call is still awaiting its initial
\* probe.
C31_SingleSyncLoop == LiveLoops <= 1

\* C29: after a probe that got a 200 response, the stored offset is
\* serverTime + networkDelay/2 - localReceiveTime, with networkDelay the
\* response time minus the request time and the half taken in whole
\* milliseconds.
C29_OffsetFormula ==
    last_probe.ok =>
        time_offset =
            <<last_probe.server_time
                + ((last_probe.response_time - last_probe.request_time) \div 2)
                - last_probe.response_time>>

C29_Witness ==
    /\ last_probe.ok
    /\ last_probe.response_time - last_probe.request_time = ProbeDelay
    /\ last_probe.server_time = last_probe.response_time + 250
    /\ time_offset = <<250 + ProbeDelay \div 2>>

\* C30: as long as no probe has succeeded, is_synchronized() is false and
\* get_server_time() is the local time; once one has, is_synchronized() is
\* true and get_server_time() is the local time plus the stored offset.
C30_FallbackUntilFirstSync ==
    /\ last_probe.successes = 0 =>
           (~IsSynchronized /\ GetServerTime = local_ms)
    /\ last_probe.successes > 0 =>
           (/\ IsSynchronized
            /\ time_offset # <<>>
            /\ GetServerTime = local_ms + time_offset[1])

C30_Witness ==
    /\ last_probe.successes = 1
    /\ ~last_probe.ok
    /\ time_offset = <<-7>>
    /\ IsSynchronized
    /\ GetServerTime = local_ms - 7

\* C40: a probe that fails (no 200 response, a timeout, an exception) leaves
\* the stored offset and the last-sync time as they were, so is_synchronized()
\* keeps its value, and the coroutine that ran the probe goes on.
C40_FailedProbeChangesNothing ==
    [][(last_probe'.n = last_probe.n + 1 /\ ~last_probe'.ok) =>
        /\ time_offset' = time_offset
        /\ last_sync_time' = last_sync_time
        /\ IsSynchronized' = IsSynchronized
        /\ (last_probe'.caller = "sync_loop") => sync_task' = "sleeping"
        /\ (last_probe'.caller \in Starters) =>
               (sync_running' /\ starter'[last_probe'.caller] = "idle")]_vars

C40_Witness ==
    /\ last_probe.caller = "sync_loop"
    /\ ~last_probe.ok
    /\ last_probe.n = 2
    /\ last_probe.successes = 1
    /\ time_offset = <<250>>
    /\ last_sync_time # <<>>
    /\ sync_task = "sleeping"

-----------------------------------------------------------------------------
(* Stopping the three services                                              *)

StoppedWS ==
    /\ ~running
    /\ hpc \in {"none", "done"}
    /\ ~ws_manager
    /\ connection_status = "disconnected"

StoppedLease ==
    /\ ~lrunning
    /\ kpc \in {"none", "done"}

StoppedSync ==
    /\ ~sync_running
    /\ sync_task \in {"none", "done"}

\* the steps of the client that bear on stopping it
NextWSLifecycle ==
    \/ Connect
    \/ StartMessageProcessing
    \/ HealthCheck
    \/ HealthIdle
    \/ GiveUp
    \/ BeginReconnect
    \/ FinishReconnect
    \/ Disconnect
    \/ MessageLoopExit
    \/ UnexpectedClose

\* the three services share no state: a run exercises one of them
NextStopping ==
    \/ (InitLease /\ InitSync /\ NextWSLifecycle)
    \/ (InitWS /\ InitSync /\ NextLease)
    \/ (InitWS /\ InitLease /\ NextSync)

-----------------------------------------------------------------------------
(* DataValidator                                                            *)
(* Times are integer milliseconds, prices and volumes integers; the ratio   *)
(* and square-root tests are compared by cross-multiplication.              *)
(* validate_order and validate_position, which touch only total_validated,  *)
(* validation_errors and last_validation, are not modelled.                 *)

ExpectedIntervalMs == 60000    \* _check_time_gap: expected_interval_ms = 60 * 1000
ToleranceMs == 5000            \* _check_time_gap: tolerance_ms
MaxPriceHistory == 100         \* self.max_price_history
MinAnomalyHistory == 10        \* _check_price_anomaly: len(self.price_history) < 10
AnomalyWindow == 20            \* _check_price_anomaly: self.price_history[-20:]
AnomalySigmas == 5             \* _check_price_anomaly: std_dev * 5

\* bounds of the validator model: validate_* calls and reset_stats calls in a run
MaxValidations == 3
MaxResets == 1

\* DataValidator("BTCUSDT")
ValidatorSymbol == "BTCUSDT"

StatKeys ==
    {"total_validated", "validation_errors", "kline_gaps", "price_anomalies",
     "volume_anomalies", "last_validation"}

\* __init__, lines 18-25
FreshStats == [key \in StatKeys |-> 0]

\* reset_stats, lines 294-300: the dict it assigns
ResetStatsValue ==
    [key \in {"total_validated", "validation_errors", "kline_gaps", "price_anomalies",
              "last_validation"} |-> 0]

\* self.stats[key] += 1, for a key the dict has
Bump(st, key) == [st EXCEPT ![key] = @ + 1]

\* the candle that opens at open_time, as the exchange sends it for the
\* validator's symbol: a flat candle at PlainPrice with one unit traded
PlainKline(open) ==
    [symbol |-> ValidatorSymbol, open_time |-> open,
     close_time |-> open + ExpectedIntervalMs - 1,
     open_price |-> PlainPrice, high_price |-> PlainPrice, low_price |-> PlainPrice,
     close_price |-> PlainPrice, volume |-> 1, quote_volume |-> PlainPrice]

KlineVariants ==
    {"plain", "close_on_the_minute", "other_symbol", "empty_range", "high_below_low",
     "negative_volume", "no_trades", "average_outside", "spike"}

\* the candles handed to validate_kline
Kline(open, variant) ==
    LET k == PlainKline(open)
    IN  IF variant = "close_on_the_minute"
        THEN [k EXCEPT !.close_time = open + ExpectedIntervalMs]
        ELSE IF variant = "other_symbol" THEN [k EXCEPT !.symbol = "ETHUSDT"]
        ELSE IF variant = "empty_range" THEN [k EXCEPT !.close_time = open]
        ELSE IF variant = "high_below_low" THEN [k EXCEPT !.high_price = PlainPrice - 10]
        ELSE IF variant = "negative_volume" THEN [k EXCEPT !.volume = -1]
        ELSE IF variant = "no_trades" THEN [k EXCEPT !.volume = 0, !.quote_volume = 0]
        ELSE IF variant = "average_outside" THEN [k EXCEPT !.quote_volume = 2 * PlainPrice]
        ELSE IF variant = "spike"
        THEN [k EXCEPT !.high_price = SpikePrice, !.close_price = SpikePrice,
                       !.quote_volume = SpikePrice]
        ELSE k

\* _validate_prices, lines 186-208
ValidatePrices(k) ==
    /\ k.open_price > 0 /\ k.high_price > 0 /\ k.low_price > 0 /\ k.close_price > 0
    /\ ~(k.high_price < k.open_price \/ k.high_price < k.close_price
            \/ k.high_price < k.low_price)
    /\ ~(k.low_price > k.open_price \/ k.low_price > k.close_price
            \/ k.low_price > k.high_price)

\* _validate_volume, lines 217-221: quote_volume / volume lies outside [low, high]
AveragePriceOutside(k) ==
    /\ k.volume > 0
    /\ k.quote_volume > 0
    /\ (k.quote_volume < k.low_price * k.volume \/ k.quote_volume > k.high_price * k.volume)

\* _validate_volume, lines 210-228: what it returns and the stats it leaves.
\* self.stats["volume_anomalies"] += 1 raises KeyError when the dict lacks
\* the key; `except Exception` turns that into False.
ValidateVolume(st, k) ==
    IF k.volume < 0 \/ k.quote_volume < 0 THEN [ok |-> FALSE, stats |-> st]
    ELSE IF AveragePriceOutside(k)
    THEN IF "volume_anomalies" \in DOMAIN st
         THEN [ok |-> TRUE, stats |-> Bump(st, "volume_anomalies")]
         ELSE [ok |-> FALSE, stats |-> st]
    ELSE [ok |-> TRUE, stats |-> st]

\* _check_time_gap, lines 230-242
CheckTimeGap(last_close, k) ==
    /\ last_close # None
    /\ Abs((k.open_time - last_close) - ExpectedIntervalMs) > ToleranceMs

RECURSIVE Sum(_)
Sum(s) == IF s = <<>> THEN 0 ELSE Head(s) + Sum(Tail(s))

\* _check_price_anomaly, lines 244-263: |price - avg| > 5 * std_dev over the
\* last 20 prices, with n = len(recent), S = sum(recent):
\*   n * (n * price - S)^2 > 25 * sum((n * p - S)^2)
CheckPriceAnomaly(history, price) ==
    IF Len(history) < MinAnomalyHistory THEN FALSE
    ELSE LET recent == LastN(history, AnomalyWindow)
             n == Len(recent)
             S == Sum(recent)
             squares == [i \in 1..n |-> (n * recent[i] - S) * (n * recent[i] - S)]
         IN  n * (n * price - S) * (n * price - S)
                > AnomalySigmas * AnomalySigmas * Sum(squares)

\* _update_price_history, lines 265-271
UpdatePriceHistory(history, price) == LastN(Append(history, price), MaxPriceHistory)

\* the errors list of a validate_* call, as the set of the checks that failed
ErrorsOf(checks) == {e \in DOMAIN checks : checks[e]}

\* validate_kline, lines 36-86: the errors it returns and the stats it leaves
ValidateKlineOutcome(st, k, last_close, history) ==
    LET st1 == Bump(st, "total_validated")
        vol == ValidateVolume(st1, k)
        gap == CheckTimeGap(last_close, k)
        st2 == IF gap THEN Bump(vol.stats, "kline_gaps") ELSE vol.stats
        anomaly == CheckPriceAnomaly(history, k.close_price)
        st3 == IF anomaly THEN Bump(st2, "price_anomalies") ELSE st2
        errors == ErrorsOf([symbol_mismatch |-> k.symbol # ValidatorSymbol,
                            invalid_time_range |-> k.open_time >= k.close_time,
                            invalid_prices |-> ~ValidatePrices(k),
                            invalid_volume |-> ~vol.ok,
                            time_gap |-> gap,
                            price_anomaly |-> anomaly])
        st4 == IF errors # {} THEN Bump(st3, "validation_errors") ELSE st3
    IN  [errors |-> errors, stats |-> [st4 EXCEPT !["last_validation"] = 1]]

NoKline == PlainKline(0)

\* a call on the validator that is not validate_kline
ValCall(op, errors) ==
    [op |-> op, errors |-> errors, kline |-> NoKline, last_close |-> None,
     history |-> <<>>, consecutive |-> FALSE]

\* the validator as constructed (lines 10-31), or after ten validate_mark_price
\* calls with the plain price
InitValidator ==
    /\ \E n \in {0, MinAnomalyHistory} :
        /\ price_history = [i \in 1..n |-> PlainPrice]
        /\ last_mark_price = (IF n = 0 THEN None ELSE PlainPrice)
        /\ stats = [FreshStats EXCEPT !["total_validated"] = n,
                                      !["last_validation"] = IF n = 0 THEN 0 ELSE 1]
    /\ last_kline_close_time = None
    /\ val_open_time = None
    /\ val_consecutive = TRUE
    /\ val_calls = 0
    /\ val_resets = 0
    /\ val_last = ValCall("init", {})

\* validate_kline, lines 33-86; the feed hands over the candle that opens one
\* or two minutes after the previous one
ValidateKline ==
    /\ val_calls < MaxValidations
    /\ val_calls' = val_calls + 1
    /\ \E step \in {ExpectedIntervalMs, 2 * ExpectedIntervalMs}, variant \in KlineVariants :
        LET open == IF val_open_time = None THEN 0 ELSE val_open_time + step
            k == Kline(open, variant)
            r == ValidateKlineOutcome(stats, k, last_kline_close_time, price_history)
            consecutive == val_consecutive
                             /\ (val_open_time # None => step = ExpectedIntervalMs)
        IN  /\ val_open_time = None => step = ExpectedIntervalMs
            /\ stats' = r.stats
            /\ last_kline_close_time' = k.close_time
            /\ price_history' = UpdatePriceHistory(price_history, k.close_price)
            /\ val_open_time' = open
            /\ val_consecutive' = consecutive
            /\ val_last' = [op |-> "validate_kline", errors |-> r.errors, kline |-> k,
                            last_close |-> last_kline_close_time,
                            history |-> price_history, consecutive |-> consecutive]
    /\ UNCHANGED <<last_mark_price, val_resets>>
    /\ UNCHANGED otherThanVal

\* validate_mark_price, lines 88-138, for a tick of the validator's symbol
\* with a positive mark price and the index price at PlainPrice
ValidateMarkPrice ==
    /\ val_calls < MaxValidations
    /\ val_calls' = val_calls + 1
    /\ \E mark \in Prices, unusual_funding \in BOOLEAN :
        LET anomaly == CheckPriceAnomaly(price_history, mark)
            errors == ErrorsOf([invalid_mark_price |-> mark <= 0,
                                large_deviation |->
                                    mark > 0 /\ Abs(mark - PlainPrice) * 10 > PlainPrice,
                                unusual_funding |-> unusual_funding,
                                price_anomaly |-> anomaly])
            st1 == Bump(stats, "total_validated")
            st2 == IF anomaly THEN Bump(st1, "price_anomalies") ELSE st1
            st3 == IF errors # {} THEN Bump(st2, "validation_errors") ELSE st2
        IN  /\ stats' = [st3 EXCEPT !["last_validation"] = 1]
            /\ last_mark_price' = mark
            /\ price_history' = UpdatePriceHistory(price_history, mark)
            /\ val_last' = ValCall("validate_mark_price", errors)
    /\ UNCHANGED <<last_kline_close_time, val_open_time, val_consecutive, val_resets>>
    /\ UNCHANGED otherThanVal

\* reset_stats, lines 292-302
ResetStats ==
    /\ val_resets < MaxResets
    /\ val_resets' = val_resets + 1
    /\ stats' = ResetStatsValue
    /\ val_last' = ValCall("reset_stats", {})
    /\ UNCHANGED <<last_kline_close_time, last_mark_price, price_history,
                   val_open_time, val_consecutive, val_calls>>
    /\ UNCHANGED otherThanVal

NextValidator ==
    \/ ValidateKline
    \/ ValidateMarkPrice
    \/ ResetStats

\* C36: as long as every candle handed to validate_kline opens exactly
\* 60000 ms after the one before it, validate_kline reports no time gap and
\* the kline_gaps counter is 0.
C36_NoGapForConsecutiveCandles ==
    (val_last.op = "validate_kline" /\ val_last.consecutive)
        => ("time_gap" \notin val_last.errors /\ stats["kline_gaps"] = 0)

\* C37: right after reset_stats() the statistics are those of a validator
\* just constructed, and a validate_kline call finds a candle valid exactly
\* when it would with statistics that were never reset.
C37_ResetIsFreshAndHarmless ==
    /\ val_last.op = "reset_stats" => stats = FreshStats
    /\ val_last.op = "validate_kline" =>
           (val_last.errors = {}) =
               (ValidateKlineOutcome(FreshStats, val_last.kline, val_last.last_close,
                                     val_last.history).errors = {})

-----------------------------------------------------------------------------
(* Two VWAPStrategy instances with the same configuration, fed the same     *)
(* candles. Each has its own lifecycle calls and reads the clock at its own *)
(* times. The functions of pandas_ta and of utils/indicators.py are left    *)
(* uninterpreted: an indicator value is represented by the call that        *)
(* produces it, so two values are equal iff the same function was applied   *)
(* to the same candles with the same parameters.                            *)

Twins == {1, 2}

\* bound of the model of the two instances: candles fed to both
MaxTwinFed == 2

\* current_vwap, current_vwap_std, current_adx as __init__ leaves them
ZeroTerm == <<"0.0">>

\* calculate_vwap(klines): the pair it returns
CalculateVwap(window) ==
    [vwap |-> <<"ta.vwap", window>>, vwap_std |-> <<"weighted_std", window>>]

\* calculate_adx(klines, period)
CalculateAdx(window, period) == <<"ta.adx", window, period>>

\* _calculate_indicators, lines 104-130: the dict it returns (as a sequence:
\* empty for {}, one record otherwise)
CalculateIndicators(buf, multiplier) ==
    IF Len(buf) < GetRequiredDataLength THEN <<>>
    ELSE LET v == CalculateVwap(LastN(buf, Config.vwap_period))
             adx == CalculateAdx(LastN(buf, Config.adx_period + 1), Config.adx_period)
         IN  <<[vwap |-> v.vwap, vwap_std |-> v.vwap_std, adx |-> adx,
                rsi |-> <<"calculate_rsi", LastN(buf, 20)>>,
                volatility |-> <<"calculate_volatility", LastN(buf, 20)>>,
                upper_band |-> <<"+", v.vwap, v.vwap_std, multiplier>>,
                lower_band |-> <<"-", v.vwap, v.vwap_std, multiplier>>]>>

AppendKlineIfActive(st, buf, k) ==
    IF st = "ACTIVE" THEN LastN(Append(buf, k), MaxBufferSize) ELSE buf

\* add_kline, lines 196-201: the buffer after the append and the trim,
\* whatever the state of the instance
AppendKline(st, buf, k) == LastN(Append(buf, k), MaxBufferSize)

\* add_kline with process_kline up to the indicators (base.py lines 196-230,
\* vwap_strategy.py lines 230-244) on instance t: the instance afterwards and
\* what _calculate_indicators returned (<<>> when it was not called or raised)
TwinIngest(t, k, raises) ==
    LET buf == AppendKline(t.state, t.klines, k)
        stage == IF IsReady(t.state, buf)
                 THEN KlineStage(k, buf, t.volatility_halt_until, t.now)
                 ELSE "not_ready"
        appended == [t EXCEPT !.klines = buf]
        ind == CalculateIndicators(buf, vwap_std_multiplier)
    IN  IF stage = "spike"
        THEN [inst |-> [appended EXCEPT !.volatility_halt_until =
                                            t.now + 60 * Config.volatility_halt_minutes],
              returned |-> <<>>]
        ELSE IF stage # "indicators" THEN [inst |-> appended, returned |-> <<>>]
        ELSE IF raises = "adx"
        THEN [inst |-> [appended EXCEPT !.state = OnIngestException(t.state),
                                        !.current_vwap = ind[1].vwap,
                                        !.current_vwap_std = ind[1].vwap_std],
              returned |-> <<>>]
        ELSE [inst |-> [appended EXCEPT !.current_vwap = ind[1].vwap,
                                        !.current_vwap_std = ind[1].vwap_std,
                                        !.current_adx = ind[1].adx,
                                        !.computed = @ + 1],
              returned |-> ind]

InitTwins ==
    /\ twins = [i \in Twins |->
                  [state |-> "INACTIVE",
                   klines |-> WarmBuffer(GetRequiredDataLength - 1),
                   volatility_halt_until |-> None,
                   current_vwap |-> ZeroTerm,
                   current_vwap_std |-> ZeroTerm,
                   current_adx |-> ZeroTerm,
                   now |-> 0,
                   computed |-> 0]]
    /\ twin_fed = 0
    /\ twin_last = [i \in Twins |-> <<>>]

\* the same candle is handed to add_kline of both instances; whether
\* calculate_adx raises for it is a matter of the candles, not of the instance
TwinsAddKline ==
    /\ twin_fed < MaxTwinFed
    /\ twin_fed' = twin_fed + 1
    /\ \E price \in Prices, closed \in BOOLEAN, raises \in {"no", "adx"} :
        LET n == GetRequiredDataLength - 1 + twin_fed
            k == [open_time |-> n, close_price |-> price, is_closed |-> closed,
                  seq |-> n + 1]
            r == [i \in Twins |-> TwinIngest(twins[i], k, raises)]
        IN  /\ twins' = [i \in Twins |-> r[i].inst]
            /\ twin_last' = [i \in Twins |-> r[i].returned]
    /\ UNCHANGED otherThanTwin

\* start(), pause() or stop() on one of the two instances
TwinLifecycle ==
    /\ \E i \in Twins, op \in {"start", "pause", "stop"} :
        twins' = [twins EXCEPT ![i].state =
                     IF op = "start" THEN StartState(@)
                     ELSE IF op = "pause" THEN PauseState(@)
                     ELSE "INACTIVE"]
    /\ UNCHANGED <<twin_fed, twin_last>>
    /\ UNCHANGED otherThanTwin

\* time passes before the next call on one of the instances
TwinTick ==
    /\ \E i \in Twins :
        /\ twins[i].now + TickStep <= MaxClock
        /\ twins' = [twins EXCEPT ![i].now = @ + TickStep]
    /\ UNCHANGED <<twin_fed, twin_last>>
    /\ UNCHANGED otherThanTwin

NextTwins ==
    \/ TwinsAddKline
    \/ TwinLifecycle
    \/ TwinTick

-----------------------------------------------------------------------------
(* Specifications: each component runs from the constructed state of all    *)

Init ==
    /\ InitWS
    /\ InitLease
    /\ InitStrategy
    /\ InitManager
    /\ InitSync
    /\ InitValidator
    /\ InitTwins

\* every component as constructed, the strategy instance with the default
\* configuration and fed nothing: where a run of the client or of the lease
\* manager starts
InitIdle ==
    /\ Init
    /\ klines = <<>>
    /\ vwap_std_multiplier = 2
    /\ price_history = <<>>

\* a strategy instance whose buffers are not full yet
InitFilling ==
    /\ Init
    /\ Len(klines) < MaxBufferSize
    /\ price_history = <<>>

\* a strategy instance with the default configuration whose two buffers are full
InitFull ==
    /\ Init
    /\ Len(klines) = MaxBufferSize
    /\ vwap_std_multiplier = 2
    /\ price_history = <<>>

\* a validator as constructed, or one that has validated ten mark prices
InitValidating ==
    /\ Init
    /\ klines = <<>>
    /\ vwap_std_multiplier = 2

SpecWS == InitIdle /\ [][NextWS]_vars

SpecLease == InitIdle /\ [][NextLease]_vars

\* the close call of a shutdown returns or raises: it does not hang
SpecLeaseLive == SpecLease /\ WF_vars(DeleteResponse)

SpecStrategy == InitFilling /\ [][NextStrategy]_vars

SpecStrategyFull == InitFull /\ [][NextStrategy]_vars

SpecManager == InitIdle /\ [][NextManager]_vars

SpecSync == InitIdle /\ [][NextSync]_vars

SpecStopping == InitIdle /\ [][NextStopping]_vars

SpecValidator == InitValidating /\ [][NextValidator]_vars

SpecTwins == InitIdle /\ [][NextTwins]_vars

====
